---- MODULE Spec2Model ----
(***************************************************************************)
(* Document classification and confidence-scored extraction engine of the  *)
(* OCR_Extraction service: the classifier (services/extractor.py), the     *)
(* confidence fuser, cross-field validator and aggregator                  *)
(* (services/confidence_calculator.py) and the response normalisation      *)
(* (services/models.py).                                                   *)
(*                                                                         *)
(* Representation.                                                         *)
(*  - A Python str is a sequence of one-character strings; None is the     *)
(*    record NoneV, a str value s is StrV(s).                              *)
(*  - An optional number (float or None) is a sequence of length 0 or 1.   *)
(*  - OCR averages and image-quality scores are fixed-point numbers in     *)
(*    hundredths (the OCR average is round(x, 2) in the source).           *)
(*  - Arithmetic on floats is done exactly on scaled integers; round() is  *)
(*    Python's round-half-to-even.                                         *)
(***************************************************************************)
EXTENDS Integers, Sequences, FiniteSets, TLC

VARIABLES
    pc,                 \* position of the request in the pipeline
    text,               \* recognised text handed to the classifier
    v2_result,          \* classify_document_smart: result of classify_document_type_v2
    old_result,         \* classify_document_smart: result of classify_document_type (v1)
    smart_type,         \* classify_document_smart: returned document type
    hybrid_call,        \* arguments of a call of calculate_hybrid_confidence
    hybrid_result,      \* the dict returned by calculate_hybrid_confidence
    extraction_result,  \* the dict handed to process_with_confidence
    ocr_confidences,    \* process_with_confidence argument (per-field OCR confidence)
    image_quality,      \* process_with_confidence argument (image-quality score)
    enhanced_result,    \* the dict returned by process_with_confidence
    response_fields,    \* "fields" of ScanResponse.to_dict()
    clock,              \* datetime.now(), in ticks
    rerun_result,       \* the dict returned by a second call of process_with_confidence
    fn_call,            \* arguments of a call of one scoring function
    fn_result,          \* what that call returned
    db,                 \* the MongoDB collections and the stored files
    req                 \* the requests being served, one per server thread

classifyVars == <<text, v2_result, old_result, smart_type>>
hybridVars == <<hybrid_call, hybrid_result>>
confVars == <<extraction_result, ocr_confidences, image_quality, enhanced_result>>
otherVars == <<clock, rerun_result, fn_call, fn_result, db, req>>
vars == <<pc, classifyVars, hybridVars, confVars, response_fields, otherVars>>

(***************************************************************************)
(* Generic helpers                                                         *)
(***************************************************************************)
SetMax(S) == CHOOSE x \in S : \A y \in S : y <= x
SetMin(S) == CHOOSE x \in S : \A y \in S : x <= y
Max2(a, b) == IF a >= b THEN a ELSE b
Min2(a, b) == IF a <= b THEN a ELSE b
Abs(x) == IF x < 0 THEN 0 - x ELSE x

\* Python round(n/d) for n >= 0, d > 0: nearest integer, ties to the even one.
PyRound(n, d) ==
    LET q == n \div d
        r == n % d
    IN  IF 2 * r > d \/ (2 * r = d /\ q % 2 = 1) THEN q + 1 ELSE q

\* Python int(n/d) for n >= 0: truncation.
PyInt(n, d) == n \div d

RECURSIVE SumOver(_, _)
SumOver(S, f) ==
    IF S = {} THEN 0
    ELSE LET x == CHOOSE y \in S : TRUE IN f[x] + SumOver(S \ {x}, f)

(***************************************************************************)
(* Characters and strings                                                  *)
(***************************************************************************)
DigitSeq == <<"0", "1", "2", "3", "4", "5", "6", "7", "8", "9">>
UpperSeq == <<"A", "B", "C", "D", "E", "F", "G", "H", "I", "J", "K", "L", "M",
              "N", "O", "P", "Q", "R", "S", "T", "U", "V", "W", "X", "Y", "Z">>
LowerSeq == <<"a", "b", "c", "d", "e", "f", "g", "h", "i", "j", "k", "l", "m",
              "n", "o", "p", "q", "r", "s", "t", "u", "v", "w", "x", "y", "z">>
Range(s) == {s[i] : i \in DOMAIN s}
Digits == Range(DigitSeq)
Uppers == Range(UpperSeq)
Lowers == Range(LowerSeq)
Spaces == {" ", "\t", "\n"}

IsDigit(c) == c \in Digits
IsUpper(c) == c \in Uppers
IsLower(c) == c \in Lowers
IsAlpha(c) == c \in Uppers \cup Lowers
IsSpace(c) == c \in Spaces

LowerC(c) == IF c \in Uppers THEN LowerSeq[CHOOSE i \in DOMAIN UpperSeq : UpperSeq[i] = c] ELSE c
DigitVal(c) == (CHOOSE i \in DOMAIN DigitSeq : DigitSeq[i] = c) - 1

NoneV == [kind |-> "None"]
StrV(s) == [kind |-> "str", chars |-> s]
IsNone(v) == v.kind = "None"

\* str.lower()
Lower(s) == [i \in DOMAIN s |-> LowerC(s[i])]

\* str.strip()
Strip(s) ==
    LET keep == {i \in DOMAIN s : ~IsSpace(s[i])}
    IN  IF keep = {} THEN <<>> ELSE SubSeq(s, SetMin(keep), SetMax(keep))

\* str.replace(' ', '')
RemoveBlanks(s) == SelectSeq(s, LAMBDA c : c # " ")

AllIn(s, S) == \A i \in DOMAIN s : s[i] \in S
AnyIn(s, S) == \E i \in DOMAIN s : s[i] \in S
CountIn(s, S) == Cardinality({i \in DOMAIN s : s[i] \in S})

\* re.fullmatch(r'\d{lo,hi}', s)
FullDigits(s, lo, hi) == Len(s) \in lo..hi /\ AllIn(s, Digits)

\* the sequence t occurs in s as a contiguous substring
Contains(s, t) ==
    \E i \in 1..(Len(s) - Len(t) + 1) : SubSeq(s, i, i + Len(t) - 1) = t

\* int(s) of a non-empty all-digit string
RECURSIVE ParseInt(_)
ParseInt(s) ==
    IF s = <<>> THEN 0
    ELSE 10 * ParseInt(SubSeq(s, 1, Len(s) - 1)) + DigitVal(s[Len(s)])

\* str.split(): starts of the whitespace-separated words of s
WordStarts(s) == {i \in DOMAIN s : ~IsSpace(s[i]) /\ (i = 1 \/ IsSpace(s[i - 1]))}
WordCount(s) == Cardinality(WordStarts(s))
HasOneCharWord(s) ==
    \E i \in WordStarts(s) : i = Len(s) \/ IsSpace(s[i + 1])

(***************************************************************************)
(* Field values the extractors can return: per field a well-formed value   *)
(* and a malformed one; None stands for a field that was not found.        *)
(***************************************************************************)
Samples ==
    [ pan |->
          <<StrV(<<"A", "B", "C", "D", "E", "1", "2", "3", "4", "F">>), StrV(<<"A", "B", "C", "D", "E", "1", "2", "3", "4", "5">>)>>,
      aadhaar_number |->
          <<StrV(<<"1", "2", "3", "4", " ", "5", "6", "7", "8", " ", "9", "0", "1", "2">>), StrV(<<"1", "2", "3", "4", "5">>)>>,
      voter_id |->
          <<StrV(<<"A", "B", "C", "1", "2", "3", "4", "5", "6", "7">>), StrV(<<"A", "B", "1", "2">>)>>,
      dl_number |->
          <<StrV(<<"D", "L", "0", "4", "2", "0", "1", "1", "0", "1", "4", "9", "6", "4", "6">>), StrV(<<"D", "L", "-", "0", "4">>)>>,
      name |->
          <<StrV(<<"J", "o", "h", "n", " ", "D", "o", "e">>), StrV(<<"J", "O", "H", "N">>)>>,
      student_name |->
          <<StrV(<<"J", "o", "h", "n", " ", "D", "o", "e">>), StrV(<<"j", "o", "h", "n", "_", "d", "o", "e">>)>>,
      father_name |->
          <<StrV(<<"R", "a", "m", " ", "D", "o", "e">>), StrV(<<"J", "o", "h", "n", " ", "D", "o", "e">>)>>,
      mother_name |->
          <<StrV(<<"S", "i", "t", "a", " ", "D", "o", "e">>), StrV(<<"S">>)>>,
      husband_name |->
          <<StrV(<<"R", "a", "m", " ", "D", "o", "e">>), StrV(<<" ">>)>>,
      dob |->
          <<StrV(<<"0", "1", "/", "0", "1", "/", "1", "9", "9", "0">>), StrV(<<"3", "2", "/", "0", "1", "/", "1", "9", "9", "0">>)>>,
      issue_date |->
          <<StrV(<<"0", "1", "/", "0", "1", "/", "2", "0", "1", "5">>), StrV(<<"2", "0", "1", "5">>)>>,
      valid_till |->
          <<StrV(<<"0", "1", "/", "0", "1", "/", "2", "0", "3", "5">>), StrV(<<"1", "/", "1", "/", "3", "5">>)>>,
      gender |->
          <<StrV(<<"F", "e", "m", "a", "l", "e">>), StrV(<<"X">>)>>,
      address |->
          <<StrV(<<"1", "2", ",", " ", "M", "G", " ", "R", "o", "a", "d", ",", " ", "P", "u", "n", "e">>), StrV(<<" ", " ", " ">>)>>,
      mobile |->
          <<StrV(<<"9", "8", "7", "6", "5", "4", "3", "2", "1", "0">>), StrV(<<>>)>>,
      school_name |->
          <<StrV(<<"D", "A", "V", " ", "P", "u", "b", "l", "i", "c", " ", "S", "c", "h", "o", "o", "l">>), StrV(<<"D", "A", "V">>)>>,
      roll_no |->
          <<StrV(<<"1", "2", "3", "4", "5", "6", "7">>), StrV(<<"A", "B">>)>>,
      year |->
          <<StrV(<<"2", "0", "2", "0">>), StrV(<<"1", "8", "0", "0">>)>>,
      cgpa |->
          <<StrV(<<"9", ".", "2">>), StrV(<<"4", "5", ".", "0">>)>> ]
FieldNames == DOMAIN Samples
ValuesOf(field_name) == {NoneV} \cup Range(Samples[field_name])

(***************************************************************************)
(* calculate_pattern_confidence (confidence_calculator.py:42-216)          *)
(***************************************************************************)
K_SCHOOL == <<"S", "C", "H", "O", "O", "L">>
K_COLLEGE == <<"C", "O", "L", "L", "E", "G", "E">>
K_INSTITUTE == <<"I", "N", "S", "T", "I", "T", "U", "T", "E">>
K_ACADEMY == <<"A", "C", "A", "D", "E", "M", "Y">>
K_UNIVERSITY == <<"U", "N", "I", "V", "E", "R", "S", "I", "T", "Y">>
K_male == <<"m", "a", "l", "e">>
K_female == <<"f", "e", "m", "a", "l", "e">>
K_transgender == <<"t", "r", "a", "n", "s", "g", "e", "n", "d", "e", "r">>
K_m == <<"m">>
K_f == <<"f">>
K_other == <<"o", "t", "h", "e", "r">>

DateSeps == {"/", "-"}
NameFields == {"name", "father_name", "mother_name", "student_name"}
DateFields == {"dob", "issue_date", "valid_till"}

\* r'[A-Z]{5}[0-9]{4}[A-Z]' and r'[A-Z0-9]{10}'
MatchPanStrict(s) ==
    /\ Len(s) = 10
    /\ AllIn(SubSeq(s, 1, 5), Uppers)
    /\ AllIn(SubSeq(s, 6, 9), Digits)
    /\ s[10] \in Uppers
MatchPanLoose(s) == Len(s) = 10 /\ AllIn(s, Uppers \cup Digits)

\* r'[A-Z]{3,4}[0-9]{6,10}' and r'[A-Z0-9]{9,15}'
MatchVoterStrict(s) ==
    \E k \in {3, 4} :
        /\ Len(s) - k \in 6..10
        /\ AllIn(SubSeq(s, 1, k), Uppers)
        /\ AllIn(SubSeq(s, k + 1, Len(s)), Digits)
MatchVoterLoose(s) == Len(s) \in 9..15 /\ AllIn(s, Uppers \cup Digits)

\* r'[A-Z]{2}[0-9O]{6,20}'; re.search(r'[A-Z]{2}') and re.search(r'\d{6,}')
MatchDlStrict(s) ==
    /\ Len(s) - 2 \in 6..20
    /\ AllIn(SubSeq(s, 1, 2), Uppers)
    /\ AllIn(SubSeq(s, 3, Len(s)), Digits \cup {"O"})
MatchDlLoose(s) ==
    /\ \E i \in 1..(Len(s) - 1) : s[i] \in Uppers /\ s[i + 1] \in Uppers
    /\ \E i \in 1..(Len(s) - 5) : AllIn(SubSeq(s, i, i + 5), Digits)

\* r'[6-9]\d{9}'
MatchMobileStrict(s) == FullDigits(s, 10, 10) /\ s[1] \in {"6", "7", "8", "9"}

\* r'(19|20)\d{2}'
MatchYearStrict(s) ==
    FullDigits(s, 4, 4) /\ SubSeq(s, 1, 2) \in {<<"1", "9">>, <<"2", "0">>}

\* The ways the first n characters of s match r'\d{1,2}[/-]\d{1,2}[/-]\d{4}':
\* <<a, b>> are the lengths of the day and month groups.
DateShapes(s) ==
    {ab \in {1, 2} \X {1, 2} :
        /\ Len(s) >= ab[1] + ab[2] + 6
        /\ AllIn(SubSeq(s, 1, ab[1]), Digits)
        /\ s[ab[1] + 1] \in DateSeps
        /\ AllIn(SubSeq(s, ab[1] + 2, ab[1] + ab[2] + 1), Digits)
        /\ s[ab[1] + ab[2] + 2] \in DateSeps
        /\ AllIn(SubSeq(s, ab[1] + ab[2] + 3, ab[1] + ab[2] + 6), Digits)}
DateFullShapes(s) == {ab \in DateShapes(s) : Len(s) = ab[1] + ab[2] + 6}

PatternDate(s) ==
    IF DateFullShapes(s) # {}
    THEN LET ab    == CHOOSE x \in DateFullShapes(s) : TRUE
             day   == ParseInt(SubSeq(s, 1, ab[1]))
             month == ParseInt(SubSeq(s, ab[1] + 2, ab[1] + ab[2] + 1))
             year  == ParseInt(SubSeq(s, ab[1] + ab[2] + 3, Len(s)))
         IN  IF day \in 1..31 /\ month \in 1..12 /\ year \in 1900..2100
             THEN 95 ELSE 60
    ELSE 40

\* float(s) for the plain decimal notation [+-]digits[.digits] (the values of
\* the model use no exponent, underscore, "inf" or "nan").  The result is
\* <<>> when float() raises, else <<sign, integer part, fraction is zero>>.
ParseFloat(raw) ==
    LET s      == Strip(raw)
        signed == Len(s) > 0 /\ s[1] \in {"+", "-"}
        neg    == signed /\ s[1] = "-"
        body   == IF signed THEN SubSeq(s, 2, Len(s)) ELSE s
        dots   == {i \in DOMAIN body : body[i] = "."}
        ip     == IF dots = {} THEN body ELSE SubSeq(body, 1, SetMin(dots) - 1)
        fp     == IF dots = {} THEN <<>> ELSE SubSeq(body, SetMin(dots) + 1, Len(body))
    IN  IF /\ Cardinality(dots) <= 1
           /\ AllIn(ip, Digits) /\ AllIn(fp, Digits)
           /\ Len(ip) + Len(fp) > 0
        THEN <<[neg |-> neg, int |-> ParseInt(ip), fraczero |-> AllIn(fp, {"0"})]>>
        ELSE <<>>

\* 0.0 <= x <= hi for a parsed float x
FloatInRange(x, hi) ==
    IF x.neg THEN x.int = 0 /\ x.fraczero
    ELSE x.int < hi \/ (x.int = hi /\ x.fraczero)

PatternCgpa(s) ==
    LET f == ParseFloat(s)
    IN  IF f = <<>> THEN 30
        ELSE IF FloatInRange(f[1], 10) THEN 92
        ELSE IF FloatInRange(f[1], 100) THEN 65
        ELSE 40

PatternName(s) ==
    IF Len(s) < 3 THEN 30
    ELSE IF Len(s) > 50 THEN 50
    ELSE LET alpha == CountIn(s, Uppers \cup Lowers \cup Spaces)
             base  == IF 100 * alpha >= 90 * Len(s)
                      THEN (IF WordCount(s) \in 2..5 THEN 88
                            ELSE IF WordCount(s) = 1 THEN 75 ELSE 70)
                      ELSE IF 100 * alpha >= 70 * Len(s) THEN 60
                      ELSE 35
             m1    == IF AnyIn(s, {"|", "_", "[", "]", "{", "}"}) THEN 75 ELSE 100
             m2    == IF HasOneCharWord(s) THEN 85 ELSE 100
         IN  PyRound(base * m1 * m2, 10000)

PatternAddress(s) ==
    IF Len(s) < 10 THEN 40
    ELSE IF Len(s) > 200 THEN 55
    ELSE LET has_letters == AnyIn(s, Uppers \cup Lowers)
             has_numbers == AnyIn(s, Digits)
             has_comma   == AnyIn(s, {","})
         IN  IF has_letters /\ has_numbers /\ has_comma THEN 85
             ELSE IF has_letters /\ (has_numbers \/ has_comma) THEN 75
             ELSE IF has_letters THEN 60
             ELSE 40

\* re.search(r'\b' + kw + r'\b', s, re.I)
IsWordChar(c) == c \in Uppers \cup Lowers \cup Digits \cup {"_"}
HasWord(s, kw) ==
    \E i \in 1..(Len(s) - Len(kw) + 1) :
        /\ Lower(SubSeq(s, i, i + Len(kw) - 1)) = Lower(kw)
        /\ (i = 1 \/ ~IsWordChar(s[i - 1]))
        /\ (i + Len(kw) - 1 = Len(s) \/ ~IsWordChar(s[i + Len(kw)]))

PatternSchool(s) ==
    IF Len(s) < 5 THEN 40
    ELSE IF Len(s) > 100 THEN 50
    ELSE IF \E kw \in {K_SCHOOL, K_COLLEGE, K_INSTITUTE, K_ACADEMY, K_UNIVERSITY} :
                HasWord(s, kw)
         THEN 90 ELSE 65

PatternDefault(s) ==
    IF Len(s) < 2 THEN 40 ELSE IF Len(s) > 100 THEN 55 ELSE 65

\* every field scored by the rule for fields without a format
pattern_by_default(field_name, field_value) ==
    IF IsNone(field_value) THEN 0
    ELSE IF Strip(field_value.chars) = <<>> THEN 0
    ELSE PatternDefault(Strip(field_value.chars))

calculate_pattern_confidence(field_name, field_value) ==
    IF IsNone(field_value) THEN 0
    ELSE IF Strip(field_value.chars) = <<>> THEN 0
    ELSE LET value_str == Strip(field_value.chars) IN
        CASE field_name = "aadhaar_number" ->
                IF FullDigits(RemoveBlanks(value_str), 12, 12) THEN 98
                ELSE IF FullDigits(RemoveBlanks(value_str), 10, 14) THEN 75
                ELSE 40
          [] field_name = "pan" ->
                IF MatchPanStrict(value_str) THEN 98
                ELSE IF MatchPanLoose(value_str) THEN 70
                ELSE 35
          [] field_name = "voter_id" ->
                IF MatchVoterStrict(value_str) THEN 95
                ELSE IF MatchVoterLoose(value_str) THEN 65
                ELSE 40
          [] field_name = "dl_number" ->
                IF MatchDlStrict(value_str) THEN 95
                ELSE IF MatchDlLoose(value_str) THEN 75
                ELSE 45
          [] field_name = "mobile" ->
                IF MatchMobileStrict(value_str) THEN 97
                ELSE IF FullDigits(value_str, 10, 10) THEN 65
                ELSE 35
          [] field_name = "roll_no" ->
                IF FullDigits(value_str, 7, 12) THEN 92
                ELSE IF FullDigits(value_str, 5, 15) THEN 75
                ELSE 50
          [] field_name \in DateFields -> PatternDate(value_str)
          [] field_name = "gender" ->
                IF Lower(value_str) \in {K_male, K_female, K_transgender, K_m, K_f}
                THEN 99 ELSE 50
          [] field_name \in NameFields -> PatternName(value_str)
          [] field_name = "address" -> PatternAddress(value_str)
          [] field_name = "school_name" -> PatternSchool(value_str)
          [] field_name = "cgpa" -> PatternCgpa(value_str)
          [] field_name = "year" ->
                IF MatchYearStrict(value_str) THEN 95
                ELSE IF FullDigits(value_str, 4, 4) THEN 65
                ELSE 35
          [] OTHER -> PatternDefault(value_str)

(***************************************************************************)
(* calculate_business_rules_confidence (confidence_calculator.py:219-257)  *)
(***************************************************************************)
BusinessAllowed == Uppers \cup Lowers \cup Digits \cup Spaces \cup {",", ".", "-", "/", "(", ")"}
BusinessDigitFields == {"aadhaar_number", "pan", "mobile", "roll_no"}

\* str.isupper() / str.islower(): some cased character, none of the other case
IsUpperStr(s) == AnyIn(s, Uppers) /\ ~AnyIn(s, Lowers)
IsLowerStr(s) == AnyIn(s, Lowers) /\ ~AnyIn(s, Uppers)

\* re.search(r'(.)\1{4,}', s): five equal consecutive characters, not newlines
HasRepeat5(s) ==
    \E i \in 1..(Len(s) - 4) :
        s[i] # "\n" /\ \A j \in 1..4 : s[i + j] = s[i]

\* one penalty for any number of special characters
SpecialPenaltyFlat(specials) == IF specials > 0 THEN 30 ELSE 0
\* score -= min(30, len(special_chars) * 5)
SpecialPenalty(specials) == IF specials > 0 THEN Min2(30, specials * 5) ELSE 0

calculate_business_rules_confidence(field_name, field_value) ==
    IF IsNone(field_value) THEN 0
    ELSE IF field_value.chars = <<>> THEN 0
    ELSE LET value_str == Strip(field_value.chars)
             specials  == Len(value_str) - CountIn(value_str, BusinessAllowed)
             d_len     == IF Len(value_str) = 1 THEN 40
                          ELSE IF Len(value_str) > 200 THEN 30 ELSE 0
             d_special == SpecialPenalty(specials)
             d_case    == IF /\ field_name \in NameFields
                             /\ (IsUpperStr(value_str) \/ IsLowerStr(value_str))
                          THEN 10 ELSE 0
             d_repeat  == IF HasRepeat5(value_str) THEN 30 ELSE 0
             d_digit   == IF /\ field_name \in BusinessDigitFields
                             /\ ~AnyIn(value_str, Digits)
                          THEN 50 ELSE 0
         IN  IF Len(value_str) = 0 THEN 0
             ELSE Max2(0, 100 - d_len - d_special - d_case - d_repeat - d_digit)

(***************************************************************************)
(* validate_cross_fields (confidence_calculator.py:343-474)                *)
(***************************************************************************)
\* Python truthiness of a field value: not None and not ''
Truthy(v) == ~IsNone(v) /\ v.chars # <<>>

\* fields.get(name) of a flat field map
GetValue(fields, name) == IF name \in DOMAIN fields THEN fields[name] ELSE NoneV

\* int(s): optional sign and digits, surrounded by optional whitespace (the
\* values of the model use no underscore); <<>> when int() raises
TryInt(raw) ==
    LET s      == Strip(raw)
        signed == Len(s) > 0 /\ s[1] \in {"+", "-"}
        body   == IF signed THEN SubSeq(s, 2, Len(s)) ELSE s
    IN  IF Len(body) > 0 /\ AllIn(body, Digits)
        THEN <<IF signed /\ s[1] = "-" THEN 0 - ParseInt(body) ELSE ParseInt(body)>>
        ELSE <<>>

\* re.split(r'[/-]', s)[2] when the first two groups have lengths a and b
ThirdPart(s, a, b) ==
    LET from == a + b + 3
        seps == {i \in from..Len(s) : s[i] \in DateSeps}
    IN  SubSeq(s, from, IF seps = {} THEN Len(s) ELSE SetMin(seps) - 1)

YEAR_MIN_DOB == 1900
YEAR_MAX_DOB == 2024
YEAR_MIN == 1990
YEAR_MAX == 2025

CrossDob(s) ==
    IF DateShapes(s) # {}
    THEN LET ab    == CHOOSE x \in DateShapes(s) : TRUE
             day   == ParseInt(SubSeq(s, 1, ab[1]))
             month == ParseInt(SubSeq(s, ab[1] + 2, ab[1] + ab[2] + 1))
             year  == TryInt(ThirdPart(s, ab[1], ab[2]))
         IN  IF year = <<>>
             THEN [valid |-> FALSE, confidence_adjustment |-> -50, reason |-> "Failed to parse date"]
             ELSE IF ~(day \in 1..31)
             THEN [valid |-> FALSE, confidence_adjustment |-> -40, reason |-> "Invalid day"]
             ELSE IF ~(month \in 1..12)
             THEN [valid |-> FALSE, confidence_adjustment |-> -40, reason |-> "Invalid month"]
             ELSE IF ~(year[1] \in YEAR_MIN_DOB..YEAR_MAX_DOB)
             THEN [valid |-> FALSE, confidence_adjustment |-> -30, reason |-> "Unrealistic year"]
             ELSE [valid |-> TRUE, confidence_adjustment |-> 0, reason |-> "Valid date"]
    ELSE [valid |-> FALSE, confidence_adjustment |-> -50, reason |-> "Invalid date format"]

CrossYear(s) ==
    LET y == TryInt(s)
    IN  IF y = <<>>
        THEN [valid |-> FALSE, confidence_adjustment |-> -40, reason |-> "Year is not numeric"]
        ELSE IF y[1] \in YEAR_MIN..YEAR_MAX
        THEN [valid |-> TRUE, confidence_adjustment |-> 0, reason |-> "Valid year"]
        ELSE [valid |-> FALSE, confidence_adjustment |-> -30, reason |-> "Unrealistic year"]

CrossCgpa(s) ==
    LET f == ParseFloat(s)
    IN  IF f = <<>>
        THEN [valid |-> FALSE, confidence_adjustment |-> -30, reason |-> "CGPA is not numeric"]
        ELSE IF FloatInRange(f[1], 10)
        THEN [valid |-> TRUE, confidence_adjustment |-> 0, reason |-> "Valid CGPA"]
        ELSE [valid |-> FALSE, confidence_adjustment |-> -35, reason |-> "CGPA out of range"]

\* name and father_name are both set and equal up to case and outer blanks
SameAsFather(fields) ==
    LET name   == IF Truthy(GetValue(fields, "name")) THEN GetValue(fields, "name")
                  ELSE GetValue(fields, "student_name")
        father == GetValue(fields, "father_name")
    IN  /\ Truthy(name) /\ Truthy(father)
        /\ Lower(Strip(name.chars)) = Lower(Strip(father.chars))

InvalidGender(v) ==
    /\ Truthy(v)
    /\ Lower(Strip(v.chars)) \notin {K_male, K_female, K_transgender, K_m, K_f, K_other}

\* The per-value computations above on the sample values, evaluated once
IsSample(field_name, field_value) ==
    field_name \in FieldNames /\ field_value \in Range(Samples[field_name])
PatternOnSamples ==
    [n \in FieldNames |->
        [v \in Range(Samples[n]) |-> calculate_pattern_confidence(n, v)]]
BusinessOnSamples ==
    [n \in FieldNames |->
        [v \in Range(Samples[n]) |-> calculate_business_rules_confidence(n, v)]]
CrossOnSamples ==
    [dob  |-> [v \in Range(Samples.dob) |-> CrossDob(v.chars)],
     year |-> [v \in Range(Samples.year) |-> CrossYear(v.chars)],
     cgpa |-> [v \in Range(Samples.cgpa) |-> CrossCgpa(v.chars)]]

PatternConf(field_name, field_value) ==
    IF IsSample(field_name, field_value) THEN PatternOnSamples[field_name][field_value]
    ELSE calculate_pattern_confidence(field_name, field_value)
BusinessConf(field_name, field_value) ==
    IF IsSample(field_name, field_value) THEN BusinessOnSamples[field_name][field_value]
    ELSE calculate_business_rules_confidence(field_name, field_value)
\* the finding of the dob, year or cgpa check on a value
CrossFinding(field_name, field_value) ==
    IF IsSample(field_name, field_value) THEN CrossOnSamples[field_name][field_value]
    ELSE CASE field_name = "dob" -> CrossDob(field_value.chars)
           [] field_name = "year" -> CrossYear(field_value.chars)
           [] field_name = "cgpa" -> CrossCgpa(field_value.chars)

\* The findings, as a function from the fields that have one
validate_cross_fields(fields) ==
    LET checked == {n \in {"dob", "year", "cgpa"} : Truthy(GetValue(fields, n))}
                     \cup (IF SameAsFather(fields) THEN {"father_name"} ELSE {})
                     \cup (IF InvalidGender(GetValue(fields, "gender")) THEN {"gender"} ELSE {})
    IN  [n \in checked |->
            CASE n \in {"dob", "year", "cgpa"} -> CrossFinding(n, fields[n])
              [] n = "father_name" ->
                    [valid |-> FALSE, confidence_adjustment |-> -50,
                     reason |-> "Father name same as student name (suspicious)"]
              [] n = "gender" ->
                    [valid |-> FALSE, confidence_adjustment |-> -40,
                     reason |-> "Invalid gender value"]]

(***************************************************************************)
(* calculate_hybrid_confidence (confidence_calculator.py:259-341)          *)
(***************************************************************************)
W_TESSERACT == 40
W_PATTERN == 30
W_IMAGE_QUALITY == 20
W_BUSINESS == 10
DEFAULT_IMAGE_QUALITY == 7500

\* round(x, 1) of a number given in hundredths, in tenths
Round1(x100) == PyRound(x100, 10)

\* a mutation: the OCR component is always the pattern proxy
TessFromPattern(pattern_conf, tesseract_conf, meta_avg) == 100 * pattern_conf
\* The OCR component: the average in meta, else the argument, else pattern_conf
TessConf(pattern_conf, tesseract_conf, meta_avg) ==
    IF meta_avg # <<>> THEN meta_avg[1]
    ELSE IF tesseract_conf # <<>> THEN tesseract_conf[1]
    ELSE 100 * pattern_conf

ImgQuality(image_quality_arg) ==
    IF image_quality_arg # <<>> THEN image_quality_arg[1] ELSE DEFAULT_IMAGE_QUALITY

\* a fusion with the weights of the OCR and pattern components exchanged
FuseSwapped(tess, pattern_conf, img, business_conf) ==
    PyRound(W_PATTERN * tess + W_TESSERACT * 100 * pattern_conf
              + W_IMAGE_QUALITY * img + W_BUSINESS * 100 * business_conf, 10000)

\* Weighted formula; tess and quality in hundredths, pattern and business integers
FuseWeighted(tess, pattern_conf, img, business_conf) ==
    PyRound(W_TESSERACT * tess + W_PATTERN * 100 * pattern_conf
              + W_IMAGE_QUALITY * img + W_BUSINESS * 100 * business_conf, 10000)

\* the returned dict for the four component scores
HybridOf(tess_conf, pattern_conf, img_quality, business_conf) ==
    [final_confidence |-> FuseWeighted(tess_conf, pattern_conf, img_quality, business_conf),
     breakdown |-> [tesseract_ocr  |-> Round1(tess_conf),
                    pattern_match  |-> pattern_conf,
                    image_quality  |-> Round1(img_quality),
                    business_rules |-> business_conf]]

HybridFromScores(pattern_conf, business_conf, tesseract_conf, image_quality_arg, meta_avg) ==
    HybridOf(TessConf(pattern_conf, tesseract_conf, meta_avg), pattern_conf,
             ImgQuality(image_quality_arg), business_conf)

calculate_hybrid_confidence(field_name, field_value, tesseract_conf, image_quality_arg, meta_avg) ==
    HybridFromScores(PatternConf(field_name, field_value),
                     BusinessConf(field_name, field_value),
                     tesseract_conf, image_quality_arg, meta_avg)

(***************************************************************************)
(* add_confidence_to_fields (confidence_calculator.py:476-540)             *)
(***************************************************************************)
ListedThresholds ==
    [aadhaar_number |-> 75, pan |-> 75, voter_id |-> 75, dl_number |-> 75, roll_no |-> 75,
     name |-> 75, student_name |-> 75, dob |-> 70, father_name |-> 75, mother_name |-> 75,
     mobile |-> 80, address |-> 75, issue_date |-> 70, valid_till |-> 70, year |-> 75,
     gender |-> 75, school_name |-> 75, cgpa |-> 70]
DEFAULT_THRESHOLD == 80
REVIEW_BAND == 10

FIELD_THRESHOLDS(field_name) ==
    IF field_name \in DOMAIN ListedThresholds THEN ListedThresholds[field_name]
    ELSE DEFAULT_THRESHOLD

\* a status without the REVIEW band
StatusPassFail(final_conf, threshold) ==
    IF final_conf >= threshold THEN "PASS" ELSE "FAIL"

StatusOf(final_conf, threshold) ==
    IF final_conf >= threshold THEN "PASS"
    ELSE IF final_conf >= threshold - REVIEW_BAND THEN "REVIEW"
    ELSE "FAIL"

\* ocr_confidences.get(field_name) if ocr_confidences else None
FieldOcr(ocr, field_name) == IF field_name \in DOMAIN ocr THEN <<ocr[field_name]>> ELSE <<>>

\* the annotated field for the post-adjustment confidence and the threshold
Annotated(field_name, field_value, cross_validation, breakdown, final_conf, threshold) ==
    [value |-> field_value,
     confidence |-> final_conf,
     breakdown |-> breakdown,
     threshold |-> threshold,
     status |-> StatusOf(final_conf, threshold),
     cross_validation |-> IF field_name \in DOMAIN cross_validation
                          THEN <<cross_validation[field_name]>> ELSE <<>>]

\* cross_val.get('confidence_adjustment', 0) of the field's finding, 0 without one
Adjustment(field_name, cross_validation) ==
    IF field_name \in DOMAIN cross_validation
    THEN cross_validation[field_name].confidence_adjustment ELSE 0

\* an annotation without max(0, ...)
AnnotateUnclamped(field_name, field_value, cross_validation, hybrid) ==
    Annotated(field_name, field_value, cross_validation, hybrid.breakdown,
              hybrid.final_confidence + Adjustment(field_name, cross_validation),
              FIELD_THRESHOLDS(field_name))

AnnotateHybrid(field_name, field_value, cross_validation, hybrid) ==
    Annotated(field_name, field_value, cross_validation, hybrid.breakdown,
              Max2(0, hybrid.final_confidence + Adjustment(field_name, cross_validation)),
              FIELD_THRESHOLDS(field_name))

AnnotateField(field_name, field_value, cross_validation, ocr, image_quality_arg, meta_avg) ==
    AnnotateHybrid(field_name, field_value, cross_validation,
        calculate_hybrid_confidence(field_name, field_value, FieldOcr(ocr, field_name),
                                    image_quality_arg, meta_avg))

\* an annotation of the found fields only
annotate_found_only(fields, ocr, image_quality_arg, meta_avg) ==
    LET cross_validation == validate_cross_fields(fields)
    IN  [n \in {k \in DOMAIN fields : ~IsNone(fields[k])} |->
            AnnotateField(n, fields[n], cross_validation, ocr, image_quality_arg, meta_avg)]

add_confidence_to_fields(fields, ocr, image_quality_arg, meta_avg) ==
    LET cross_validation == validate_cross_fields(fields)
    IN  [n \in DOMAIN fields |->
            AnnotateField(n, fields[n], cross_validation, ocr, image_quality_arg, meta_avg)]

(***************************************************************************)
(* calculate_overall_confidence (confidence_calculator.py:542-578)         *)
(***************************************************************************)
\* importance_weights, times ten
ListedWeights ==
    [aadhaar_number |-> 15, pan |-> 15, voter_id |-> 15, dl_number |-> 15,
     name |-> 13, student_name |-> 13, dob |-> 12, father_name |-> 10, mother_name |-> 9,
     mobile |-> 10, address |-> 9, issue_date |-> 8, valid_till |-> 8, year |-> 8,
     gender |-> 7, school_name |-> 8, roll_no |-> 10, cgpa |-> 7]
DEFAULT_WEIGHT == 10

ImportanceWeight(field_name) ==
    IF field_name \in DOMAIN ListedWeights THEN ListedWeights[field_name] ELSE DEFAULT_WEIGHT

\* value is not None and (not isinstance(value, str) or value.strip())
CountsForOverall(field_data) ==
    ~IsNone(field_data.value) /\ Strip(field_data.value.chars) # <<>>

\* int(round(total_weighted / total_weight)).  The weights are not exact in
\* binary floating point, so when the exact mean lies halfway between two
\* integers the float quotient can fall on either side: both integers are
\* possible results.  Otherwise the result is the nearest integer.
RoundedMeans(total_weighted, total_weight) ==
    IF 2 * (total_weighted % total_weight) = total_weight
    THEN {total_weighted \div total_weight, total_weighted \div total_weight + 1}
    ELSE {PyRound(total_weighted, total_weight)}

\* a mean over all the fields, whatever their value
MeanOfAllFields(annotated_fields) ==
    LET all == DOMAIN annotated_fields
    IN  IF all = {} THEN {0}
        ELSE RoundedMeans(
                 SumOver(all, [n \in all |-> annotated_fields[n].confidence * ImportanceWeight(n)]),
                 SumOver(all, [n \in all |-> ImportanceWeight(n)]))

\* the set of values the call can return
calculate_overall_confidence(annotated_fields) ==
    LET counted        == {n \in DOMAIN annotated_fields : CountsForOverall(annotated_fields[n])}
        total_weighted == SumOver(counted,
                              [n \in counted |-> annotated_fields[n].confidence * ImportanceWeight(n)])
        total_weight   == SumOver(counted, [n \in counted |-> ImportanceWeight(n)])
    IN  IF total_weight = 0 THEN {0} ELSE RoundedMeans(total_weighted, total_weight)

(***************************************************************************)
(* process_with_confidence (confidence_calculator.py:581-665).  A dict is  *)
(* a function from its keys; the table is the sequence of its rows.        *)
(***************************************************************************)
\* d[k] = v on a dict
DictSet(d, k, v) == [x \in DOMAIN d \cup {k} |-> IF x = k THEN v ELSE d[x]]
\* d.get(k, default)
DictGet(d, k, default) == IF k \in DOMAIN d THEN d[k] ELSE default

\* meta -> field_ocr_confidences -> overall_stats -> average, <<>> when absent
MetaAverage(meta) ==
    IF "field_ocr_confidences" \notin DOMAIN meta THEN <<>>
    ELSE IF "overall_stats" \notin DOMAIN meta.field_ocr_confidences THEN <<>>
    ELSE IF "average" \notin DOMAIN meta.field_ocr_confidences.overall_stats THEN <<>>
    ELSE <<meta.field_ocr_confidences.overall_stats.average>>

ROWS_FEW == 3
ROWS_ENOUGH == 5
PENALTY_NO_ROWS == 60
PENALTY_FEW_ROWS == 75
PENALTY_SOME_ROWS == 90
NO_PENALTY == 100

\* the multiplier of the Marksheet table penalty, in percent
PenaltyPercent(table_count) ==
    IF table_count = 0 THEN PENALTY_NO_ROWS
    ELSE IF table_count < ROWS_FEW THEN PENALTY_FEW_ROWS
    ELSE IF table_count < ROWS_ENOUGH THEN PENALTY_SOME_ROWS
    ELSE NO_PENALTY

\* int(overall_confidence * multiplier)
Penalized(overall_confidence, table_count) ==
    IF PenaltyPercent(table_count) = NO_PENALTY THEN overall_confidence
    ELSE PyInt(overall_confidence * PenaltyPercent(table_count), 100)

\* enhanced_result after "Apply table penalty for Marksheets"
WithTablePenalty(enhanced, original_conf, table_count) ==
    IF PenaltyPercent(table_count) = NO_PENALTY THEN enhanced
    ELSE DictSet(enhanced, "metadata",
             DictSet(DictGet(enhanced, "metadata", <<>>), "table_penalty",
                 [applied |-> TRUE,
                  original_confidence |-> original_conf,
                  penalized_confidence |-> Penalized(original_conf, table_count),
                  penalty_multiplier |-> PenaltyPercent(table_count),
                  table_count |-> table_count]))

\* the entries of low_conf (the list is kept as a set, one entry per field)
LowConfidenceFields(annotated_fields) ==
    {[field |-> n,
      confidence |-> annotated_fields[n].confidence,
      threshold |-> annotated_fields[n].threshold,
      status |-> annotated_fields[n].status] :
        n \in {m \in DOMAIN annotated_fields :
                  annotated_fields[m].status \in {"FAIL", "REVIEW"}}}

RESCAN_BELOW == 70
RESCAN_LOW_FIELDS == 3

\* the rule that sets suggest_rescan without the overall confidence
SuggestByCountOnly(overall_confidence, low_count) == low_count >= RESCAN_LOW_FIELDS

SuggestRescan(overall_confidence, low_count) ==
    overall_confidence < RESCAN_BELOW \/ low_count >= RESCAN_LOW_FIELDS

\* process_with_confidence from the annotated fields on, for one value of
\* calculate_overall_confidence
Enhance(result, annotated_fields, overall_confidence) ==
    LET document_type == DictGet(result, "document_type", "Unknown")
        enhanced      == DictSet(DictSet(DictSet(result,
                             "fields", annotated_fields),
                             "overall_confidence", overall_confidence),
                             "confidence", overall_confidence)
        table_count   == Len(DictGet(result, "table", <<>>))
        \* the local overall_confidence and enhanced_result after the penalty
        penalized     == IF document_type = "Marksheet"
                         THEN Penalized(overall_confidence, table_count)
                         ELSE overall_confidence
        after_penalty == IF document_type = "Marksheet"
                         THEN WithTablePenalty(enhanced, overall_confidence, table_count)
                         ELSE enhanced
        low_conf      == LowConfidenceFields(annotated_fields)
    IN  DictSet(after_penalty, "metadata",
            [low_confidence_fields |-> low_conf,
             low_confidence_count |-> Cardinality(low_conf),
             suggest_rescan |-> SuggestRescan(penalized, Cardinality(low_conf)),
             reviewed |-> FALSE])

\* process_with_confidence from the annotated fields on: one dict for each
\* value calculate_overall_confidence can return
EnhanceAll(result, annotated_fields) ==
    {Enhance(result, annotated_fields, overall_confidence) :
        overall_confidence \in calculate_overall_confidence(annotated_fields)}

\* metadata["processed_at"] = datetime.utcnow().isoformat(): the ISO text of
\* an instant names that instant, and stands here as the reading of the clock
Stamped(enhanced, now) ==
    DictSet(enhanced, "metadata", DictSet(enhanced.metadata, "processed_at", now))

\* the set of dicts the call can return when the clock reads `now`
process_with_confidence(result, ocr, image_quality_arg, now) ==
    IF "fields" \notin DOMAIN result THEN {result}
    ELSE {Stamped(enhanced, now) :
             enhanced \in EnhanceAll(result,
                 add_confidence_to_fields(result.fields, ocr, image_quality_arg,
                                          MetaAverage(DictGet(result, "meta", <<>>))))}

(***************************************************************************)
(* DOCUMENT_FIELD_SCHEMA and normalize_fields (models.py:13-71)            *)
(***************************************************************************)
DOCUMENT_FIELD_SCHEMA ==
    ("PAN" :> <<"pan", "name", "father_name", "dob">>)
    @@ ("Aadhaar" :> <<"aadhaar_number", "name", "dob", "gender", "father_name",
                       "address", "mobile">>)
    @@ ("Voter ID" :> <<"voter_id", "name", "father_name", "husband_name", "dob", "gender">>)
    @@ ("Driving Licence" :> <<"dl_number", "name", "dob", "issue_date", "valid_till",
                               "father_name", "address">>)
    @@ ("Marksheet" :> <<"student_name", "father_name", "mother_name", "school_name",
                         "dob", "roll_no", "year", "cgpa">>)

\* DOCUMENT_FIELD_SCHEMA.get(document_type, [])
ExpectedFields(document_type) ==
    IF document_type \in DOMAIN DOCUMENT_FIELD_SCHEMA
    THEN Range(DOCUMENT_FIELD_SCHEMA[document_type]) ELSE {}

\* isinstance(field_data, dict): annotated fields are dicts, flat values are not
IsDict(field_data) == "value" \in DOMAIN field_data

\* {"value": field_data, "confidence": 0} unless field_data is a dict already
Structured(field_data) ==
    IF IsDict(field_data) THEN field_data ELSE [value |-> field_data, confidence |-> 0]

normalize_fields(fields, document_type) ==
    IF ExpectedFields(document_type) = {} THEN fields
    ELSE [n \in ExpectedFields(document_type) \cup DOMAIN fields |->
             IF n \in DOMAIN fields THEN Structured(fields[n])
             ELSE [value |-> NoneV, confidence |-> 0]]

(***************************************************************************)
(* The field extractors (extractor.py:427-812).  Each extractor starts     *)
(* from a dict literal with a key per field, all None, and then assigns    *)
(* only to keys of that dict.  Which values it finds in the text is not    *)
(* computed: every combination of found and not-found fields is allowed.   *)
(***************************************************************************)
ExtractorKeys ==
    ("Aadhaar" :> {"aadhaar_number", "name", "dob", "gender", "father_name", "address",
                   "mobile"})
    @@ ("Voter ID" :> {"voter_id", "name", "father_name", "husband_name", "dob", "gender"})
    @@ ("Driving Licence" :> {"dl_number", "name", "dob", "issue_date", "valid_till",
                              "father_name", "address"})
    @@ ("Marksheet" :> {"student_name", "father_name", "mother_name", "school_name", "dob",
                        "roll_no", "year", "cgpa"})
    @@ ("PAN" :> {"pan", "name", "father_name", "dob"})

(***************************************************************************)
(* Recognised text.  A text is a filler of `pad` characters (noise without *)
(* letters, digits or underscores, not blank, ending in a newline)         *)
(* followed by lines of the vocabulary below, joined by newlines;          *)
(* text.lines holds the index of each line in Vocabulary.  No line of the  *)
(* vocabulary ends or starts with a part of a keyword, so no match of the  *)
(* classifier spans two lines.                                             *)
(***************************************************************************)
UpperC(c) == IF c \in Lowers THEN UpperSeq[CHOOSE i \in DOMAIN LowerSeq : LowerSeq[i] = c] ELSE c
\* str.upper()
Upper(s) == [i \in DOMAIN s |-> UpperC(s[i])]

(***************************************************************************)
(* Regular expressions of the classifier: a pattern is a sequence of items *)
(* [cs, lo, hi], a character class repeated lo to hi times (hi = -1: no    *)
(* upper limit); every pattern is searched between two \b.                 *)
(***************************************************************************)
It(cs, lo, hi) == [cs |-> cs, lo |-> lo, hi |-> hi]
Lit(kw) == [i \in DOMAIN kw |-> It({kw[i]}, 1, 1)]

\* positions after the matches of items k.. of pat starting at position i of s
RECURSIVE MatchEnds(_, _, _, _)
MatchEnds(s, i, pat, k) ==
    IF k > Len(pat) THEN {i}
    ELSE LET hi == IF pat[k].hi < 0 THEN Len(s) ELSE pat[k].hi
             ns == {n \in pat[k].lo..hi :
                       /\ i + n - 1 <= Len(s)
                       /\ \A m \in i..(i + n - 1) : s[m] \in pat[k].cs}
         IN  UNION {MatchEnds(s, i + n, pat, k + 1) : n \in ns}

\* \b at position i of s (between s[i-1] and s[i])
WordBoundary(s, i) ==
    (i > 1 /\ IsWordChar(s[i - 1])) # (i <= Len(s) /\ IsWordChar(s[i]))

\* re.search(r'\b' + pat + r'\b', s)
SearchB(s, pat) ==
    \E i \in 1..(Len(s) + 1) :
        /\ WordBoundary(s, i)
        /\ \E j \in MatchEnds(s, i, pat, 1) : WordBoundary(s, j)

\* the keywords of the classifier, as the source spells them
KW ==
    [ INCOME_TAX |-> <<"I", "N", "C", "O", "M", "E", " ", "T", "A", "X">>,
      PERMANENT_ACCOUNT |->
          <<"P", "E", "R", "M", "A", "N", "E", "N", "T", " ", "A", "C", "C", "O", "U", "N", "T">>,
      GOVT_OF_INDIA_INCOME_TAX |->
          <<"G", "O", "V", "T", ".", " ", "O", "F", " ", "I", "N", "D", "I", "A", " ", "I", "N", "C", "O", "M", "E", " ", "T", "A", "X">>,
      AADHAAR |-> <<"A", "A", "D", "H", "A", "A", "R">>,
      AADHAR |-> <<"A", "A", "D", "H", "A", "R">>,
      ELECTION |-> <<"E", "L", "E", "C", "T", "I", "O", "N">>,
      DRIVING |-> <<"D", "R", "I", "V", "I", "N", "G">>,
      APPLICATION |-> <<"A", "P", "P", "L", "I", "C", "A", "T", "I", "O", "N">>,
      FORM |-> <<"F", "O", "R", "M">>,
      UIDAI |-> <<"U", "I", "D", "A", "I">>,
      UNIQUE_IDENTIFICATION |->
          <<"U", "N", "I", "Q", "U", "E", " ", "I", "D", "E", "N", "T", "I", "F", "I", "C", "A", "T", "I", "O", "N">>,
      GOVERNMENT_OF_INDIA |->
          <<"G", "O", "V", "E", "R", "N", "M", "E", "N", "T", " ", "O", "F", " ", "I", "N", "D", "I", "A">>,
      VID |-> <<"V", "I", "D">>,
      ENROLMENT |-> <<"E", "N", "R", "O", "L", "M", "E", "N", "T">>,
      ELECTION_COMMISSION |->
          <<"E", "L", "E", "C", "T", "I", "O", "N", " ", "C", "O", "M", "M", "I", "S", "S", "I", "O", "N">>,
      ELECTORAL |-> <<"E", "L", "E", "C", "T", "O", "R", "A", "L">>,
      ELECTOR |-> <<"E", "L", "E", "C", "T", "O", "R">>,
      DRIVING_LICENCE |->
          <<"D", "R", "I", "V", "I", "N", "G", " ", "L", "I", "C", "E", "N", "C", "E">>,
      DRIVING_LICENSE |->
          <<"D", "R", "I", "V", "I", "N", "G", " ", "L", "I", "C", "E", "N", "S", "E">>,
      TRANSPORT |-> <<"T", "R", "A", "N", "S", "P", "O", "R", "T">>,
      MOTOR_VEHICLE |->
          <<"M", "O", "T", "O", "R", " ", "V", "E", "H", "I", "C", "L", "E">>,
      LEARNER |-> <<"L", "E", "A", "R", "N", "E", "R">>,
      BOARD_OF |-> <<"B", "O", "A", "R", "D", " ", "O", "F">>,
      EXAMINATION |-> <<"E", "X", "A", "M", "I", "N", "A", "T", "I", "O", "N">>,
      MARKS |-> <<"M", "A", "R", "K", "S">>,
      MARKSHEET |-> <<"M", "A", "R", "K", "S", "H", "E", "E", "T">>,
      SUBJECT |-> <<"S", "U", "B", "J", "E", "C", "T">>,
      SAMPLE_PAPER |-> <<"S", "A", "M", "P", "L", "E", " ", "P", "A", "P", "E", "R">>,
      PRACTICE |-> <<"P", "R", "A", "C", "T", "I", "C", "E">>,
      TRANSPORT_AUTHORITY |->
          <<"T", "R", "A", "N", "S", "P", "O", "R", "T", " ", "A", "U", "T", "H", "O", "R", "I", "T", "Y">>,
      EPIC_NO |-> <<"E", "P", "I", "C", " ", "N", "O">>,
      MARKS_MEMO |-> <<"M", "A", "R", "K", "S", " ", "M", "E", "M", "O">>,
      GRADE_POINT |-> <<"G", "R", "A", "D", "E", " ", "P", "O", "I", "N", "T">>,
      CGPA |-> <<"C", "G", "P", "A">>,
      FATHER |-> <<"F", "A", "T", "H", "E", "R">>,
      NAME |-> <<"N", "A", "M", "E">>,
      EPIC |-> <<"E", "P", "I", "C">>,
      PART |-> <<"P", "A", "R", "T">>,
      NO |-> <<"N", "O">>,
      VALID |-> <<"V", "A", "L", "I", "D">>,
      TILL |-> <<"T", "I", "L", "L">>,
      UPTO |-> <<"U", "P", "T", "O">>,
      LMV |-> <<"L", "M", "V">>,
      MCWG |-> <<"M", "C", "W", "G">>,
      TRANS |-> <<"T", "R", "A", "N", "S">>,
      GRADE |-> <<"G", "R", "A", "D", "E">>,
      SCHOOL |-> <<"S", "C", "H", "O", "O", "L">>,
      COLLEGE |-> <<"C", "O", "L", "L", "E", "G", "E">>,
      INSTITUTE |-> <<"I", "N", "S", "T", "I", "T", "U", "T", "E">>,
      ROLL |-> <<"R", "O", "L", "L">> ]

\* the regular expressions of the classifier, each a set of alternatives
RE ==
    [ PAN |-> {<<It(Uppers, 5, 5), It(Digits, 4, 4), It(Uppers, 1, 1)>>},
      FATHERS_NAME |->
        {Lit(KW.FATHER) \o <<It({"'"}, 0, 1), It({"S"}, 0, 1), It({" "}, 1, 1)>> \o Lit(KW.NAME)},
      DATE |->
        {<<It(Digits, 2, 2), It(DateSeps, 1, 1), It(Digits, 2, 2), It(DateSeps, 1, 1),
           It(Digits, 4, 4)>>},
      AADHAAR_NUMBER |->
        {<<It(Digits, 4, 4), It(Spaces, 0, -1), It(Digits, 4, 4), It(Spaces, 0, -1),
           It(Digits, 4, 4)>>},
      RELATION |-> {<<It({"S", "D", "C"}, 1, 1), It({"/"}, 1, 1), It({"O"}, 1, 1)>>},
      VOTER |-> {<<It(Uppers, 3, 4), It(Digits, 6, 10)>>},
      EPIC_NO |-> {Lit(KW.EPIC) \o <<It(Spaces, 0, -1)>> \o Lit(KW.NO)},
      PART_NO |-> {Lit(KW.PART) \o <<It(Spaces, 0, -1)>> \o Lit(KW.NO)},
      DL |-> {<<It(Uppers, 2, 2), It(Digits \cup {"O"}, 6, 20)>>},
      VALID |->
        {Lit(KW.VALID) \o <<It(Spaces, 0, -1)>> \o Lit(kw) : kw \in {KW.TILL, KW.UPTO}},
      VEHICLE_CLASS |-> {Lit(kw) : kw \in {KW.LMV, KW.MCWG, KW.TRANS}},
      GRADE |->
        {<<It({"A", "B", "C"}, 1, 1), It({"1", "2"}, 1, 1)>>, Lit(KW.GRADE), Lit(KW.CGPA)},
      SCHOOL |-> {Lit(kw) : kw \in {KW.SCHOOL, KW.COLLEGE, KW.INSTITUTE}},
      ROLL_NO |-> {Lit(KW.ROLL) \o <<It(Spaces, 0, -1)>> \o Lit(KW.NO)} ]

(***************************************************************************)
(* Lines of recognised text                                                *)
(***************************************************************************)
Vocabulary ==
    <<<<"I", "N", "C", "O", "M", "E", " ", "T", "A", "X", " ", "D", "E", "P", "A", "R", "T", "M", "E", "N", "T">>,
      <<"G", "O", "V", "T", ".", " ", "O", "F", " ", "I", "N", "D", "I", "A", " ", "I", "N", "C", "O", "M", "E", " ", "T", "A", "X">>,
      <<"P", "E", "R", "M", "A", "N", "E", "N", "T", " ", "A", "C", "C", "O", "U", "N", "T", " ", "N", "U", "M", "B", "E", "R">>,
      <<"A", "B", "C", "D", "E", "1", "2", "3", "4", "F">>,
      <<"F", "A", "T", "H", "E", "R", "'", "S", " ", "N", "A", "M", "E">>,
      <<"0", "1", "/", "0", "1", "/", "1", "9", "9", "0">>,
      <<"A", "P", "P", "L", "I", "C", "A", "T", "I", "O", "N", " ", "F", "O", "R", "M">>,
      <<"1", "2", "3", "4", " ", "5", "6", "7", "8", " ", "9", "0", "1", "2">>,
      <<"U", "I", "D", "A", "I">>,
      <<"A", "A", "D", "H", "A", "A", "R">>,
      <<"U", "N", "I", "Q", "U", "E", " ", "I", "D", "E", "N", "T", "I", "F", "I", "C", "A", "T", "I", "O", "N", " ", "A", "U", "T", "H", "O", "R", "I", "T", "Y">>,
      <<"G", "O", "V", "E", "R", "N", "M", "E", "N", "T", " ", "O", "F", " ", "I", "N", "D", "I", "A">>,
      <<"S", "/", "O", " ", "R", "A", "M", " ", "D", "O", "E">>,
      <<"V", "I", "D">>,
      <<"E", "N", "R", "O", "L", "M", "E", "N", "T", " ", "N", "O">>,
      <<"A", "B", "C", "1", "2", "3", "4", "5", "6", "7">>,
      <<"E", "L", "E", "C", "T", "I", "O", "N", " ", "C", "O", "M", "M", "I", "S", "S", "I", "O", "N", " ", "O", "F", " ", "I", "N", "D", "I", "A">>,
      <<"E", "L", "E", "C", "T", "O", "R", "A", "L", " ", "O", "F", "F", "I", "C", "E", "R">>,
      <<"E", "P", "I", "C", " ", "N", "O">>,
      <<"P", "A", "R", "T", " ", "N", "O">>,
      <<"D", "L", "0", "4", "2", "0", "1", "1", "0", "1", "4", "9", "6", "4", "6">>,
      <<"D", "R", "I", "V", "I", "N", "G", " ", "L", "I", "C", "E", "N", "C", "E">>,
      <<"T", "R", "A", "N", "S", "P", "O", "R", "T", " ", "D", "E", "P", "A", "R", "T", "M", "E", "N", "T">>,
      <<"V", "A", "L", "I", "D", " ", "T", "I", "L", "L">>,
      <<"M", "O", "T", "O", "R", " ", "V", "E", "H", "I", "C", "L", "E">>,
      <<"L", "M", "V">>,
      <<"L", "E", "A", "R", "N", "E", "R">>,
      <<"C", "G", "P", "A">>,
      <<"B", "O", "A", "R", "D", " ", "O", "F", " ", "S", "E", "C", "O", "N", "D", "A", "R", "Y", " ", "E", "D", "U", "C", "A", "T", "I", "O", "N">>,
      <<"E", "X", "A", "M", "I", "N", "A", "T", "I", "O", "N">>,
      <<"M", "A", "R", "K", "S", "H", "E", "E", "T">>,
      <<"T", "O", "T", "A", "L", " ", "M", "A", "R", "K", "S">>,
      <<"S", "C", "H", "O", "O", "L">>,
      <<"R", "O", "L", "L", " ", "N", "O">>,
      <<"S", "U", "B", "J", "E", "C", "T">>,
      <<"P", "R", "A", "C", "T", "I", "C", "E">>,
      <<"F", "e", "m", "a", "l", "e">>,
      <<"S", "E", "C", "O", "N", "D", "A", "R", "Y", " ", "S", "C", "H", "O", "O", "L", " ", "E", "X", "A", "M", "I", "N", "A", "T", "I", "O", "N", " ", "M", "A", "R", "K", "S", "H", "E", "E", "T">>,
      <<" ", " ">>,
      <<"\t">>,
      <<"M", "a", "l", "e", " ", "/", " ", "F", "e", "m", "a", "l", "e">>>>

(***************************************************************************)
(* What the classifier's tests find in each line of the vocabulary,        *)
(* computed once from the upper-cased line.                                *)
(***************************************************************************)
\* 0-based offsets in the upper-cased line where the keyword starts
SubAt ==
    [i \in DOMAIN Vocabulary |->
        [k \in DOMAIN KW |->
            {p - 1 : p \in {q \in 1..(Len(Vocabulary[i]) - Len(KW[k]) + 1) :
                SubSeq(Upper(Vocabulary[i]), q, q + Len(KW[k]) - 1) = KW[k]}}]]

\* re.search of each expression in the upper-cased line
ReHit ==
    [i \in DOMAIN Vocabulary |->
        [r \in DOMAIN RE |-> \E pat \in RE[r] : SearchB(Upper(Vocabulary[i]), pat)]]

\* line.strip() == ""
BlankLine == [i \in DOMAIN Vocabulary |-> Strip(Vocabulary[i]) = <<>>]

EmptyText == [pad |-> 0, lines |-> <<>>]

\* not text or len(text.strip()) == 0
IsBlankText(t) == t.pad = 0 /\ \A i \in DOMAIN t.lines : BlankLine[t.lines[i]]

\* 0-based index in the text of the first character of line i
RECURSIVE LineStart(_, _)
LineStart(t, i) ==
    IF i = 1 THEN t.pad ELSE LineStart(t, i - 1) + Len(Vocabulary[t.lines[i - 1]]) + 1

\* kw in txt
HasSub(t, k) == \E i \in DOMAIN t.lines : SubAt[t.lines[i]][k] # {}

\* kw in txt[:n]
HasSubIn(t, k, n) ==
    \E i \in DOMAIN t.lines :
        \E p \in SubAt[t.lines[i]][k] : LineStart(t, i) + p + Len(KW[k]) <= n

\* re.search(expression, txt)
HasRe(t, r) == \E i \in DOMAIN t.lines : ReHit[t.lines[i]][r]

\* the subsets of S with at most n elements
RECURSIVE SubsetsUpTo(_, _)
SubsetsUpTo(S, n) ==
    IF n = 0 THEN {{}}
    ELSE LET smaller == SubsetsUpTo(S, n - 1)
         IN  smaller \cup {X \cup {x} : X \in smaller, x \in S}

\* The field maps over keys that differ in at most n fields from the map
\* without any found field or from the map of well-formed values
FieldMapsN(keys, n) ==
    UNION {{[k \in keys |-> IF k \in varied THEN Samples[k][pick[k]] ELSE NoneV] :
               pick \in [varied -> {1, 2}]}
           \cup {[k \in keys |-> IF k \notin varied THEN Samples[k][1]
                                 ELSE IF pick[k] = 1 THEN NoneV ELSE Samples[k][2]] :
                    pick \in [varied -> {1, 2}]} :
           varied \in SubsetsUpTo(keys, n)}
(***************************************************************************)
(* The field extractors on a recognised text (extractor.py:427-812).  The  *)
(* Aadhaar number, date of birth and gender of extract_aadhaar_fields are  *)
(* computed from the lines; for the other fields the regular expressions   *)
(* are not evaluated: a field may be found or not, but only in a text that *)
(* has a line with a letter or a digit, which every expression of the      *)
(* extractors needs.                                                       *)
(***************************************************************************)
\* the leftmost match of r'\b' + pat + r'\b' in s, <<first, last>>; <<>> if none
FirstB(s, pat) ==
    LET starts == {i \in 1..(Len(s) + 1) :
                      /\ WordBoundary(s, i)
                      /\ \E j \in MatchEnds(s, i, pat, 1) : WordBoundary(s, j)}
    IN  IF starts = {} THEN <<>>
        ELSE <<SetMin(starts),
               SetMax({j \in MatchEnds(s, SetMin(starts), pat, 1) : WordBoundary(s, j)}) - 1>>

\* the matched text m.group(0), None without a match
Group0(s, m) == IF m = <<>> THEN NoneV ELSE StrV(SubSeq(s, m[1], m[2]))

\* r'\b(\d{1,2}[/\-\.]\d{1,2}[/\-\.]\d{4})\b'
AADHAAR_DOB ==
    <<It(Digits, 1, 2), It({"/", "-", "."}, 1, 1), It(Digits, 1, 2),
      It({"/", "-", "."}, 1, 1), It(Digits, 4, 4)>>
\* r'\b(\d{4})\s*(\d{4})\s*(\d{4})\b'
AADHAAR_DIGITS ==
    <<It(Digits, 4, 4), It(Spaces, 0, -1), It(Digits, 4, 4), It(Spaces, 0, -1),
      It(Digits, 4, 4)>>
\* r'\b(male|female|transgender)\b' with re.I
GENDER_WORDS ==
    {<<"M", "A", "L", "E">>, <<"F", "E", "M", "A", "L", "E">>,
     <<"T", "R", "A", "N", "S", "G", "E", "N", "D", "E", "R">>}

SameCase(w) == w
\* str.title() of one word
Title(w) == [i \in DOMAIN w |-> IF i = 1 THEN UpperC(w[i]) ELSE LowerC(w[i])]

\* the leftmost gender word of the upper-cased line, <<>> without one
FirstGenderWord(s) ==
    LET hits == {w \in GENDER_WORDS : FirstB(Upper(s), Lit(w)) # <<>>}
        first == SetMin({FirstB(Upper(s), Lit(w))[1] : w \in hits})
    IN  IF hits = {} THEN <<>>
        ELSE CHOOSE w \in hits : FirstB(Upper(s), Lit(w))[1] = first

\* m.group(1).title(), None without a gender word in the line
GenderOfLine(word) == IF word = <<>> THEN NoneV ELSE StrV(Title(word))

\* ''.join(m.groups()) of the Aadhaar number of the line, None without one
NumberOfLine(s) ==
    IF FirstB(s, AADHAAR_DIGITS) = <<>> THEN NoneV
    ELSE StrV(SelectSeq(Group0(s, FirstB(s, AADHAAR_DIGITS)).chars, IsDigit))

\* what each line of the vocabulary gives extract_aadhaar_fields
LineFinds ==
    [i \in DOMAIN Vocabulary |->
        [aadhaar_number |-> NumberOfLine(Strip(Vocabulary[i])),
         dob |-> Group0(Strip(Vocabulary[i]), FirstB(Strip(Vocabulary[i]), AADHAAR_DOB)),
         gender_word |-> FirstGenderWord(Strip(Vocabulary[i])),
         gender |-> GenderOfLine(FirstGenderWord(Strip(Vocabulary[i])))]]

\* for line in lines: ... break -- the find of the first line that has one
FirstFound(t, field_name) ==
    LET found == {i \in DOMAIN t.lines : ~IsNone(LineFinds[t.lines[i]][field_name])}
    IN  IF found = {} THEN NoneV ELSE LineFinds[t.lines[SetMin(found)]][field_name]

\* the text has a line with a letter or a digit (the filler has none)
HasInk(t) == \E i \in DOMAIN t.lines : ~BlankLine[t.lines[i]]

NoSchema(keys) == <<>>
\* the dict literal an extractor starts from
AllNone(keys) == [k \in keys |-> NoneV]

MaxUnsure == 1

\* a dict with the computed entries; the fields not computed here are found
\* or not, at most MaxUnsure of them unlike the others
WithComputed(computed, keys) ==
    {[k \in keys |-> IF k \in DOMAIN computed THEN computed[k] ELSE rest[k]] :
        rest \in FieldMapsN(keys \ DOMAIN computed, MaxUnsure)}

\* the dicts an extractor may return: no search succeeds in a text without a
\* letter or digit, which leaves the dict literal as it is
ExtractorResults(keys, t, computed) ==
    IF ~HasInk(t) THEN {AllNone(keys)} ELSE WithComputed(computed, keys)

\* extract_aadhaar_fields(text, None): the set of dicts it may return
extract_aadhaar_fields(t) ==
    ExtractorResults(ExtractorKeys["Aadhaar"], t,
        [aadhaar_number |-> FirstFound(t, "aadhaar_number"),
         dob |-> FirstFound(t, "dob"),
         gender |-> FirstFound(t, "gender")])
extract_voter_fields(t) == ExtractorResults(ExtractorKeys["Voter ID"], t, <<>>)
extract_dl_fields(t) == ExtractorResults(ExtractorKeys["Driving Licence"], t, <<>>)
extract_marksheet_fields(t) == ExtractorResults(ExtractorKeys["Marksheet"], t, <<>>)
extract_pan_fields(t) == ExtractorResults(ExtractorKeys["PAN"], t, <<>>)

\* process_document: extract fields based on type ({} for Unknown)
FieldsOfType(doc_type, t) ==
    CASE doc_type = "PAN" -> extract_pan_fields(t)
      [] doc_type = "Aadhaar" -> extract_aadhaar_fields(t)
      [] doc_type = "Voter ID" -> extract_voter_fields(t)
      [] doc_type = "Driving Licence" -> extract_dl_fields(t)
      [] doc_type = "Marksheet" -> extract_marksheet_fields(t)
      [] OTHER -> {<<>>}

(***************************************************************************)
(* classify_document_type_v2 (extractor.py:68-206)                         *)
(***************************************************************************)
DocTypes == <<"PAN", "Aadhaar", "Voter ID", "Driving Licence", "Marksheet">>
HEAD == 500
FORM_HEAD == 300

Pts(cond, points) == IF cond THEN points ELSE 0

ScorePAN(t) ==
      Pts(HasRe(t, "PAN"), 50)
    + Pts(HasSubIn(t, "INCOME_TAX", HEAD), 40)
    + Pts(HasSubIn(t, "PERMANENT_ACCOUNT", HEAD), 30)
    + Pts(HasSub(t, "GOVT_OF_INDIA_INCOME_TAX"), 20)
    + Pts(HasRe(t, "FATHERS_NAME"), 15)
    + Pts(HasRe(t, "DATE"), 10)
    - Pts(HasSub(t, "AADHAAR") \/ HasSub(t, "ELECTION") \/ HasSub(t, "DRIVING"), 30)
    - Pts(HasSub(t, "APPLICATION") \/ HasSubIn(t, "FORM", FORM_HEAD), 20)

ScoreAadhaar(t) ==
      Pts(HasRe(t, "AADHAAR_NUMBER"), 50)
    + Pts(HasSubIn(t, "UIDAI", HEAD), 40)
    + Pts(HasSub(t, "AADHAAR") \/ HasSub(t, "AADHAR"), 30)
    + Pts(HasSub(t, "UNIQUE_IDENTIFICATION"), 25)
    + Pts(HasSub(t, "GOVERNMENT_OF_INDIA"), 20)
    + Pts(HasRe(t, "RELATION"), 15)
    + Pts(HasSub(t, "VID"), 10)
    - Pts(HasSub(t, "INCOME_TAX") \/ HasSub(t, "ELECTION"), 30)
    - Pts(HasSub(t, "ENROLMENT") \/ HasSubIn(t, "APPLICATION", FORM_HEAD), 25)

ScoreVoter(t) ==
      Pts(HasRe(t, "VOTER"), 50)
    + Pts(HasSubIn(t, "ELECTION_COMMISSION", HEAD), 40)
    + Pts(HasSubIn(t, "ELECTORAL", HEAD), 30)
    + Pts(HasSub(t, "ELECTOR"), 25)
    + Pts(HasRe(t, "EPIC_NO"), 20)
    + Pts(HasRe(t, "PART_NO"), 15)
    - Pts(HasSub(t, "AADHAAR") \/ HasSub(t, "INCOME_TAX") \/ HasSub(t, "DRIVING"), 30)

ScoreDL(t) ==
      Pts(HasRe(t, "DL"), 50)
    + Pts(HasSubIn(t, "DRIVING_LICENCE", HEAD) \/ HasSubIn(t, "DRIVING_LICENSE", HEAD), 40)
    + Pts(HasSubIn(t, "TRANSPORT", HEAD), 30)
    + Pts(HasRe(t, "VALID"), 25)
    + Pts(HasSub(t, "MOTOR_VEHICLE"), 20)
    + Pts(HasRe(t, "VEHICLE_CLASS"), 15)
    - Pts(HasSub(t, "AADHAAR") \/ HasSub(t, "INCOME_TAX") \/ HasSub(t, "ELECTION"), 30)
    - Pts(HasSub(t, "LEARNER") \/ HasSubIn(t, "APPLICATION", FORM_HEAD), 25)

ScoreMarksheet(t) ==
      Pts(HasRe(t, "GRADE"), 50)
    + Pts(HasSubIn(t, "BOARD_OF", HEAD), 40)
    + Pts(HasSubIn(t, "EXAMINATION", HEAD), 35)
    + Pts(HasSub(t, "MARKS"), 30)
    + Pts(HasSub(t, "MARKSHEET"), 25)
    + Pts(HasRe(t, "SCHOOL"), 20)
    + Pts(HasRe(t, "ROLL_NO"), 20)
    + Pts(HasSub(t, "SUBJECT"), 15)
    - Pts(HasSub(t, "SAMPLE_PAPER") \/ HasSub(t, "PRACTICE"), 30)

\* scores before "Ensure no negative scores"
RawScores(t) ==
    <<ScorePAN(t), ScoreAadhaar(t), ScoreVoter(t), ScoreDL(t), ScoreMarksheet(t)>>

\* scores = {k: max(0, v) for k, v in scores.items()}
FloorScores(raw) == [k \in DOMAIN raw |-> Max2(0, raw[k])]

\* max(scores, key=scores.get): the first type with the highest score
BestIndex(scores) ==
    SetMin({k \in DOMAIN scores : \A j \in DOMAIN scores : scores[j] <= scores[k]})

\* a conversion that passes every score through unchanged
ScoreUnchanged(best_score) == best_score

\* Convert score to confidence (0-100), int() included
ScoreToConfidence(best_score) ==
    IF best_score >= 100 THEN Min2(95, PyInt(2 * 70 + (best_score - 70), 2))
    ELSE IF best_score >= 70 THEN best_score
    ELSE IF best_score >= 50 THEN PyInt(2 * 50 + (best_score - 50), 2)
    ELSE best_score

\* the result for the floored scores and the index of the best type
V2Result(scores, best) ==
    IF scores[best] = 0
    THEN [document_type |-> "Unknown", confidence |-> 0, scores |-> scores]
    ELSE [document_type |-> DocTypes[best],
          confidence |-> ScoreToConfidence(scores[best]),
          scores |-> scores]

V2FromScores(scores) == V2Result(scores, BestIndex(scores))

classify_document_type_v2(t) ==
    IF IsBlankText(t)
    THEN [document_type |-> "Unknown", confidence |-> 0, scores |-> <<>>]
    ELSE V2FromScores(FloorScores(RawScores(t)))

(***************************************************************************)
(* classify_document_type (extractor.py:211-236)                           *)
(***************************************************************************)
\* the keyword rules, tried after the PAN-number rule
V1Keywords(t) ==
    IF HasSub(t, "INCOME_TAX") \/ HasSub(t, "PERMANENT_ACCOUNT") THEN "PAN"
    ELSE IF /\ HasRe(t, "AADHAAR_NUMBER")
            /\ \E kw \in {"AADHAAR", "AADHAR", "UNIQUE_IDENTIFICATION", "UIDAI"} :
                   HasSub(t, kw)
         THEN "Aadhaar"
    ELSE IF \E kw \in {"DRIVING_LICENCE", "DRIVING_LICENSE", "TRANSPORT_AUTHORITY"} :
                HasSub(t, kw)
         THEN "Driving Licence"
    ELSE IF \E kw \in {"ELECTION_COMMISSION", "ELECTOR", "EPIC_NO"} : HasSub(t, kw)
         THEN "Voter ID"
    ELSE IF \E kw \in {"MARKSHEET", "MARKS_MEMO", "GRADE_POINT", "CGPA", "BOARD_OF"} :
                HasSub(t, kw)
         THEN "Marksheet"
    ELSE "Unknown"

\* the keyword rules alone
classify_by_keywords(t) == IF IsBlankText(t) THEN "Unknown" ELSE V1Keywords(t)

classify_document_type(t) ==
    IF IsBlankText(t) THEN "Unknown"
    ELSE IF HasRe(t, "PAN") THEN "PAN"
    ELSE V1Keywords(t)

(***************************************************************************)
(* classify_document_smart (extractor.py:241-259)                          *)
(***************************************************************************)
V2_CONFIDENT == 70
V2_USABLE == 50

\* The results below hold the v2 result, the v1 result ("NotCalled" when v1 is
\* not run) and the returned type.
\* a dispatch that asks v1 first and v2 only when v1 finds nothing
V1First(v2, v1) ==
    IF v1 # "Unknown"
    THEN [v2 |-> v2, old |-> v1, type |-> v1]
    ELSE [v2 |-> v2, old |-> v1, type |-> v2.document_type]
classify_v1_first(t) == V1First(classify_document_type_v2(t), classify_document_type(t))

\* after the V1 fallback
SmartFallback(v2, v1) ==
    IF v1 = "Unknown" /\ v2.confidence >= V2_USABLE
    THEN [v2 |-> v2, old |-> v1, type |-> v2.document_type]
    ELSE [v2 |-> v2, old |-> v1, type |-> v1]

SmartFromV2(t, v2) ==
    IF v2.confidence >= V2_CONFIDENT
    THEN [v2 |-> v2, old |-> "NotCalled", type |-> v2.document_type]
    ELSE SmartFallback(v2, classify_document_type(t))

classify_document_smart(t) == SmartFromV2(t, classify_document_type_v2(t))

(***************************************************************************)
(* Bounded inputs of the classifier                                        *)
(***************************************************************************)
MaxLines == 2
Pads == {0, FORM_HEAD, HEAD}

\* the indices in S, in increasing order
RECURSIVE LinesOf(_)
LinesOf(S) ==
    IF S = {} THEN <<>>
    ELSE LinesOf(S \ {SetMax(S)}) \o <<SetMax(S)>>

Texts ==
    {[pad |-> p, lines |-> LinesOf(S)] :
        p \in Pads, S \in SubsetsUpTo(DOMAIN Vocabulary, MaxLines)}

(***************************************************************************)
(* Idle values of the variables a specification does not use               *)
(***************************************************************************)
NoV2 == [document_type |-> "Unset", confidence |-> 0, scores |-> <<>>]
NoResult == [kind |-> "None"]
NoFields == <<>>

IdleClassify ==
    text = EmptyText /\ v2_result = NoV2 /\ old_result = "Unset" /\ smart_type = "Unset"
IdleHybrid == hybrid_call = NoResult /\ hybrid_result = NoResult
IdleConf ==
    /\ extraction_result = NoResult
    /\ ocr_confidences = <<>>
    /\ image_quality = <<>>
    /\ enhanced_result = NoResult
IdleOther ==
    /\ clock = 0
    /\ rerun_result = NoResult
    /\ fn_call = NoResult
    /\ fn_result = NoResult
    /\ db = NoResult
    /\ req = NoResult

(***************************************************************************)
(* Specification of the classifier: classify_document_smart is called on   *)
(* a recognised text.                                                      *)
(***************************************************************************)
InitClassify ==
    /\ pc = "classify"
    /\ text \in Texts
    /\ v2_result = NoV2
    /\ old_result = "Unset"
    /\ smart_type = "Unset"
    /\ IdleHybrid
    /\ IdleConf
    /\ response_fields = NoFields
    /\ IdleOther

ClassifySmart ==
    /\ pc = "classify"
    /\ \E r \in {classify_document_smart(text)} :
          /\ v2_result' = r.v2
          /\ old_result' = r.old
          /\ smart_type' = r.type
    /\ pc' = "classified"
    /\ UNCHANGED <<otherVars, text, hybridVars, confVars, response_fields>>

NextClassify == ClassifySmart

SpecClassify == InitClassify /\ [][NextClassify]_vars

(***************************************************************************)
(* Claims about the classifier (checked under SpecClassify)                *)
(***************************************************************************)
Classified == pc = "classified"
BestScore == SetMax({v2_result.scores[k] : k \in DOMAIN v2_result.scores})

\* C9: classify_document_type_v2 floors every per-type score at 0, returns
\* the type with the highest score, returns a winning score s below 50 or in
\* [70,100) unchanged, maps s in [50,70) to int(50 + (s-50)/2), maps
\* s >= 100 to min(95, int(70 + (s-70)/2)), never above 95, and returns
\* Unknown with confidence 0 when all five scores are 0.
C9_Classifier ==
    (Classified /\ ~IsBlankText(text)) =>
        /\ DOMAIN v2_result.scores = DOMAIN DocTypes
        /\ \A k \in DOMAIN DocTypes :
              /\ v2_result.scores[k] >= 0
              /\ v2_result.scores[k] = Max2(0, RawScores(text)[k])
        /\ IF BestScore = 0
           THEN v2_result.document_type = "Unknown" /\ v2_result.confidence = 0
           ELSE /\ \E k \in DOMAIN DocTypes :
                      /\ v2_result.document_type = DocTypes[k]
                      /\ v2_result.scores[k] = BestScore
                /\ v2_result.confidence <= 95
                /\ (BestScore < 50 \/ (BestScore >= 70 /\ BestScore < 100))
                      => v2_result.confidence = BestScore
                /\ (BestScore >= 50 /\ BestScore < 70)
                      => /\ 2 * v2_result.confidence <= 50 + BestScore
                         /\ 50 + BestScore < 2 * v2_result.confidence + 2
                         /\ v2_result.confidence >= 50
                         /\ v2_result.confidence <= BestScore
                /\ BestScore >= 100
                      => \/ v2_result.confidence = 95 /\ 70 + BestScore >= 2 * 95
                         \/ /\ 2 * v2_result.confidence <= 70 + BestScore
                            /\ 70 + BestScore < 2 * v2_result.confidence + 2

\* a text whose winning score is 100 or more and is compressed, and one of
\* whose raw scores was negative
C9_Witness ==
    /\ Classified
    /\ ~IsBlankText(text)
    /\ BestScore >= 100
    /\ v2_result.confidence < BestScore
    /\ \E k \in DOMAIN DocTypes : RawScores(text)[k] < 0 /\ v2_result.scores[k] = 0

\* C10: classify_document_smart returns v2's type when v2's confidence is
\* >= 70, otherwise v1's type when v1 is not Unknown, otherwise v2's type
\* when v2's confidence is >= 50, otherwise Unknown; v1 is not run when v2's
\* confidence is >= 70.
C10_SmartPrecedence ==
    Classified =>
        /\ v2_result = classify_document_type_v2(text)
        /\ IF v2_result.confidence >= 70
           THEN old_result = "NotCalled" /\ smart_type = v2_result.document_type
           ELSE /\ old_result = classify_document_type(text)
                /\ smart_type =
                      IF old_result # "Unknown" THEN old_result
                      ELSE IF v2_result.confidence >= 50 THEN v2_result.document_type
                      ELSE "Unknown"

\* v2 is confident and v1, had it been asked, would have named another type
C10_Witness ==
    /\ Classified
    /\ v2_result.confidence >= 70
    /\ old_result = "NotCalled"
    /\ classify_document_type(text) \notin {"Unknown", v2_result.document_type}
    /\ smart_type = v2_result.document_type

\* OCR averages (round(x, 2), in hundredths), per-field OCR confidences and
\* image-quality scores handed to the fuser; <<>> stands for None
MetaAverages == {<<>>, <<0>>, <<125>>, <<8725>>, <<9000>>}
TesseractConfs == {<<>>, <<0>>, <<8850>>}
ImageQualities == {<<>>, <<0>>, <<6200>>, <<10000>>}

MaxVaried == 2
MaxRows == 6

FieldMaps(keys) == FieldMapsN(keys, MaxVaried)

\* a table of n rows
Rows(n) == [i \in 1..n |-> "row"]

\* meta as process_document fills it
MetaOf(average) ==
    IF average = <<>> THEN <<>>
    ELSE [field_ocr_confidences |-> [overall_stats |-> [average |-> average[1]]]]

\* the text holds a PAN-shaped identifier and none of the keywords that
\* cost PAN points
PanSignal(t) ==
    /\ HasRe(t, "PAN")
    /\ ~HasSub(t, "AADHAAR")
    /\ ~HasSub(t, "ELECTION")
    /\ ~HasSub(t, "DRIVING")

\* C14 as stated: a text with a PAN-shaped identifier and none of the
\* Aadhaar, election or driving keywords is classified PAN by
\* classify_document_smart, whatever else it holds.
C14_PanWins == (Classified /\ PanSignal(text)) => smart_type = "PAN"

\* another type scores at least 70 and more than PAN
Outscored(t) ==
    \E k \in DOMAIN DocTypes :
        /\ DocTypes[k] # "PAN"
        /\ RawScores(t)[k] >= V2_CONFIDENT
        /\ RawScores(t)[k] > ScorePAN(t)

\* C14 (amended): such a text is classified PAN unless another document
\* type reaches a v2 score of at least 70 that is higher than PAN's; then
\* classify_document_smart returns that type.
C14_PanUnlessOutscored ==
    (Classified /\ PanSignal(text)) =>
        /\ ~Outscored(text) => smart_type = "PAN"
        /\ Outscored(text) => (smart_type # "PAN" /\ smart_type = v2_result.document_type)

\* a PAN number next to marksheet signals that tie with it: v2 is not
\* confident, v1 answers PAN
C14_Witness ==
    /\ Classified
    /\ PanSignal(text)
    /\ ~Outscored(text)
    /\ v2_result.scores[5] >= v2_result.scores[1]
    /\ old_result = "PAN"
    /\ smart_type = "PAN"

(***************************************************************************)
(* Specification of calculate_pattern_confidence on two values of a field  *)
(* that has a format rule.                                                 *)
(***************************************************************************)
\* values of each field in its strict format, in the loose format only, in
\* neither, and without content
FormatSamples ==
    [
      aadhaar_number |->
          {StrV(<<"1", "2", "3", "4", " ", "5", "6", "7", "8", " ", "9", "0", "1", "2">>),
           StrV(<<"1", "2", "3", "4", "5", "6", "7", "8", "9", "0", "1", "2">>),
           StrV(<<"1", "2", "3", "4", "5", "6", "7", "8", "9", "0">>),
           StrV(<<"1", "2", "3", "4", "5", "6", "7", "8", "9", "0", "1", "2", "3", "4">>),
           StrV(<<"1", "2", "3", "4", "5">>),
           StrV(<<"1", "2", "A", "B">>),
           NoneV,
           StrV(<<>>),
           StrV(<<" ", " ">>),
           StrV(<<"\t">>)},
      pan |->
          {StrV(<<"A", "B", "C", "D", "E", "1", "2", "3", "4", "F">>),
           StrV(<<"A", "B", "C", "D", "E", "1", "2", "3", "4", "5">>),
           StrV(<<"1", "2", "3", "4", "5", "6", "7", "8", "9", "0">>),
           StrV(<<"A", "B", "1", "2">>),
           StrV(<<"a", "b", "c", "d", "e", "1", "2", "3", "4", "f">>),
           NoneV,
           StrV(<<>>),
           StrV(<<" ", " ">>),
           StrV(<<"\t">>)},
      voter_id |->
          {StrV(<<"A", "B", "C", "1", "2", "3", "4", "5", "6", "7">>),
           StrV(<<"A", "B", "C", "D", "1", "2", "3", "4", "5", "6">>),
           StrV(<<"A", "B", "1", "2", "3", "4", "5", "6", "7", "8">>),
           StrV(<<"A", "B", "C", "D", "E", "F", "G", "H", "I">>),
           StrV(<<"A", "B", "1", "2">>),
           StrV(<<"a", "b", "c", "1", "2", "3", "4", "5", "6", "7">>),
           NoneV,
           StrV(<<>>),
           StrV(<<" ", " ">>),
           StrV(<<"\t">>)},
      dl_number |->
          {StrV(<<"D", "L", "0", "4", "2", "0", "1", "1", "0", "1", "4", "9", "6", "4", "6">>),
           StrV(<<"D", "L", "O", "4", "2", "0", "1", "1", "0", "1">>),
           StrV(<<"D", "L", "-", "0", "4", "2", "0", "1", "1", "0">>),
           StrV(<<"X", " ", "D", "L", " ", "1", "2", "3", "4", "5", "6">>),
           StrV(<<"D", "L", "-", "0", "4">>),
           StrV(<<"D", "0", "4", "2", "0", "1", "1", "0", "1", "4", "9", "6", "4", "6">>),
           NoneV,
           StrV(<<>>),
           StrV(<<" ", " ">>),
           StrV(<<"\t">>)},
      mobile |->
          {StrV(<<"9", "8", "7", "6", "5", "4", "3", "2", "1", "0">>),
           StrV(<<"6", "0", "0", "0", "0", "0", "0", "0", "0", "0">>),
           StrV(<<"1", "2", "3", "4", "5", "6", "7", "8", "9", "0">>),
           StrV(<<"9", "8", "7", "6", "5">>),
           StrV(<<"+", "9", "1", "9", "8", "7", "6", "5", "4", "3", "2", "1", "0">>),
           NoneV,
           StrV(<<>>),
           StrV(<<" ", " ">>),
           StrV(<<"\t">>)},
      roll_no |->
          {StrV(<<"1", "2", "3", "4", "5", "6", "7">>),
           StrV(<<"1", "2", "3", "4", "5", "6", "7", "8", "9", "0", "1", "2">>),
           StrV(<<"1", "2", "3", "4", "5">>),
           StrV(<<"1", "2", "3", "4", "5", "6">>),
           StrV(<<"1", "2", "3", "4">>),
           StrV(<<"A", "B">>),
           NoneV,
           StrV(<<>>),
           StrV(<<" ", " ">>),
           StrV(<<"\t">>)},
      year |->
          {StrV(<<"2", "0", "2", "0">>),
           StrV(<<"1", "9", "9", "9">>),
           StrV(<<"1", "8", "0", "0">>),
           StrV(<<"2", "1", "2", "0">>),
           StrV(<<"2", "0">>),
           StrV(<<"2", "0", "A", "0">>),
           NoneV,
           StrV(<<>>),
           StrV(<<" ", " ">>),
           StrV(<<"\t">>)} ]
FormatFields == DOMAIN FormatSamples

InitPattern ==
    /\ pc = "pattern"
    /\ \E n \in FormatFields :
          \E first \in FormatSamples[n], second \in FormatSamples[n] :
             fn_call = [field_name |-> n, first |-> first, second |-> second]
    /\ fn_result = NoResult
    /\ clock = 0
    /\ rerun_result = NoResult
    /\ db = NoResult
    /\ req = NoResult
    /\ IdleClassify
    /\ IdleHybrid
    /\ IdleConf
    /\ response_fields = NoFields

ScorePatterns ==
    /\ pc = "pattern"
    /\ fn_result' =
          [first |-> calculate_pattern_confidence(fn_call.field_name, fn_call.first),
           second |-> calculate_pattern_confidence(fn_call.field_name, fn_call.second)]
    /\ pc' = "scored"
    /\ UNCHANGED <<fn_call, clock, rerun_result, db, req, classifyVars, hybridVars,
                   confVars, response_fields>>

NextPattern == ScorePatterns

SpecPattern == InitPattern /\ [][NextPattern]_vars

\* the format of a value: 3 strict, 2 loose only, 1 neither, 0 empty or None
FormatRank(field_name, field_value) ==
    IF IsNone(field_value) THEN 0
    ELSE IF Strip(field_value.chars) = <<>> THEN 0
    ELSE LET s == Strip(field_value.chars)
             strict == CASE field_name = "aadhaar_number" -> FullDigits(RemoveBlanks(s), 12, 12)
                         [] field_name = "pan" -> MatchPanStrict(s)
                         [] field_name = "voter_id" -> MatchVoterStrict(s)
                         [] field_name = "dl_number" -> MatchDlStrict(s)
                         [] field_name = "mobile" -> MatchMobileStrict(s)
                         [] field_name = "roll_no" -> FullDigits(s, 7, 12)
                         [] field_name = "year" -> MatchYearStrict(s)
             loose  == CASE field_name = "aadhaar_number" -> FullDigits(RemoveBlanks(s), 10, 14)
                         [] field_name = "pan" -> MatchPanLoose(s)
                         [] field_name = "voter_id" -> MatchVoterLoose(s)
                         [] field_name = "dl_number" -> MatchDlLoose(s)
                         [] field_name = "mobile" -> FullDigits(s, 10, 10)
                         [] field_name = "roll_no" -> FullDigits(s, 5, 15)
                         [] field_name = "year" -> FullDigits(s, 4, 4)
         IN  IF strict THEN 3 ELSE IF loose THEN 2 ELSE 1

\* C15: for a field with a format rule the pattern score of a value in the
\* strict format is higher than that of a value in the loose format only,
\* which is higher than that of a non-empty value in neither, which is
\* higher than 0; an empty or None value scores 0.
C15_FormatOrder ==
    pc = "scored" =>
        /\ FormatRank(fn_call.field_name, fn_call.first)
              > FormatRank(fn_call.field_name, fn_call.second)
           => fn_result.first > fn_result.second
        /\ FormatRank(fn_call.field_name, fn_call.first) = 0 => fn_result.first = 0

\* a value in the loose format only was scored against one in neither format
C15_Witness ==
    /\ pc = "scored"
    /\ FormatRank(fn_call.field_name, fn_call.first) = 2
    /\ FormatRank(fn_call.field_name, fn_call.second) = 1
    /\ fn_result.first > fn_result.second
    /\ fn_result.second > 0

(***************************************************************************)
(* Specification of calculate_business_rules_confidence on a base value    *)
(* with k and with k + 1 special characters put in front of it or after    *)
(* it.                                                                     *)
(***************************************************************************)
MaxInjected == 7

BusinessBases ==
    { [field_name |-> "name", base |-> StrV(<<"J", "o", "h", "n", " ", "D", "o", "e">>)],
      [field_name |-> "name", base |-> StrV(<<"J", "O", "H", "N">>)],
      [field_name |-> "name", base |-> StrV(<<"A">>)],
      [field_name |-> "name", base |-> StrV(<<"A", "A", "A", "A", "A">>)],
      [field_name |-> "name", base |-> StrV(<<>>)],
      [field_name |-> "name", base |-> NoneV],
      [field_name |-> "pan", base |-> StrV(<<"A", "B", "C", "D", "E", "1", "2", "3", "4", "F">>)],
      [field_name |-> "pan", base |-> StrV(<<"A", "B", "C", "D", "E">>)],
      [field_name |-> "pan", base |-> StrV(<<"A", "A", "A", "A", "A", "B">>)],
      [field_name |-> "address", base |-> StrV(<<"1", "2", ",", " ", "M", "G", " ", "R", "o", "a", "d", ",", " ", "P", "u", "n", "e">>)],
      [field_name |-> "address", base |-> StrV(<<"1", "2">>)],
      [field_name |-> "mobile", base |-> StrV(<<"9", "8", "7", "6", "5", "4", "3", "2", "1", "0">>)],
      [field_name |-> "mobile", base |-> StrV(<<"X">>)] }

\* the special characters put in: the same one each time, or two in turn
InjectStyles == {<<"#">>, <<"#", "@">>}
Injected(k, style) == [i \in 1..k |-> style[((i - 1) % Len(style)) + 1]]

\* the base value with k special characters at the given side
Inject(base, k, style, side) ==
    IF IsNone(base) THEN base
    ELSE IF side = "front" THEN StrV(Injected(k, style) \o base.chars)
    ELSE StrV(base.chars \o Injected(k, style))

InitBusiness ==
    /\ pc = "business"
    /\ \E b \in BusinessBases, k \in 0..MaxInjected, style \in InjectStyles,
          side \in {"front", "end"} :
             fn_call = [field_name |-> b.field_name, base |-> b.base, k |-> k,
                        fewer |-> Inject(b.base, k, style, side),
                        more |-> Inject(b.base, k + 1, style, side)]
    /\ fn_result = NoResult
    /\ clock = 0
    /\ rerun_result = NoResult
    /\ db = NoResult
    /\ req = NoResult
    /\ IdleClassify
    /\ IdleHybrid
    /\ IdleConf
    /\ response_fields = NoFields

ScoreBusiness ==
    /\ pc = "business"
    /\ fn_result' =
          [base |-> calculate_business_rules_confidence(fn_call.field_name, fn_call.base),
           fewer |-> calculate_business_rules_confidence(fn_call.field_name, fn_call.fewer),
           more |-> calculate_business_rules_confidence(fn_call.field_name, fn_call.more)]
    /\ pc' = "scored"
    /\ UNCHANGED <<fn_call, clock, rerun_result, db, req, classifyVars, hybridVars,
                   confVars, response_fields>>

NextBusiness == ScoreBusiness

SpecBusiness == InitBusiness /\ [][NextBusiness]_vars

\* the base value is None or ''
EmptyBase == IsNone(fn_call.base) \/ fn_call.base.chars = <<>>

CAP_AT == 6

HybridCalls ==
    UNION {[field_name : {n}, field_value : ValuesOf(n),
            tesseract_conf : TesseractConfs, image_quality : ImageQualities,
            meta_avg : MetaAverages] : n \in FieldNames}

InitHybrid ==
    /\ pc = "hybrid"
    /\ hybrid_call \in HybridCalls
    /\ hybrid_result = NoResult
    /\ IdleClassify
    /\ IdleConf
    /\ response_fields = NoFields
    /\ IdleOther

CallHybrid ==
    /\ pc = "hybrid"
    /\ hybrid_result' =
          calculate_hybrid_confidence(hybrid_call.field_name, hybrid_call.field_value,
              hybrid_call.tesseract_conf, hybrid_call.image_quality, hybrid_call.meta_avg)
    /\ pc' = "fused"
    /\ UNCHANGED <<otherVars, hybrid_call, classifyVars, confVars, response_fields>>

NextHybrid == CallHybrid

SpecHybrid == InitHybrid /\ [][NextHybrid]_vars

(***************************************************************************)
(* Claims about the fuser (checked under SpecHybrid)                       *)
(***************************************************************************)
Fused == pc = "fused"

\* 10000 times the weighted sum of the four components as the breakdown reports
\* them (tesseract_ocr and image_quality in tenths)
SumOfBreakdown ==
    W_TESSERACT * 10 * hybrid_result.breakdown.tesseract_ocr
      + W_PATTERN * 100 * hybrid_result.breakdown.pattern_match
      + W_IMAGE_QUALITY * 10 * hybrid_result.breakdown.image_quality
      + W_BUSINESS * 100 * hybrid_result.breakdown.business_rules

\* the OCR component that enters the formula: the average in meta, else the
\* argument, else the pattern score; and the image quality that enters it
OcrUsed ==
    IF hybrid_call.meta_avg # <<>> THEN hybrid_call.meta_avg[1]
    ELSE IF hybrid_call.tesseract_conf # <<>> THEN hybrid_call.tesseract_conf[1]
    ELSE 100 * hybrid_result.breakdown.pattern_match
QualityUsed ==
    IF hybrid_call.image_quality # <<>> THEN hybrid_call.image_quality[1] ELSE 7500

\* 10000 times the weighted sum of the components that enter the formula
SumOfUsed ==
    W_TESSERACT * OcrUsed
      + W_PATTERN * 100 * hybrid_result.breakdown.pattern_match
      + W_IMAGE_QUALITY * QualityUsed
      + W_BUSINESS * 100 * hybrid_result.breakdown.business_rules

\* C1 (as stated): final_confidence is 0.40*OCR + 0.30*pattern + 0.20*quality
\* + 0.10*business rounded to the nearest integer, where the four components
\* are the scores reported in the breakdown.
C1_FusedFromBreakdown ==
    Fused => Abs(10000 * hybrid_result.final_confidence - SumOfBreakdown) <= 5000

\* C1 (amended): final_confidence is the weighted sum rounded to the nearest
\* integer, where pattern and business are the scores of the breakdown and
\* OCR and quality are the scores that entered the call; the breakdown
\* reports these two rounded to one decimal.
C1_FusedFromComponents ==
    Fused =>
        /\ Abs(10000 * hybrid_result.final_confidence - SumOfUsed) <= 5000
        /\ hybrid_result.breakdown.pattern_match =
              calculate_pattern_confidence(hybrid_call.field_name, hybrid_call.field_value)
        /\ hybrid_result.breakdown.business_rules =
              calculate_business_rules_confidence(hybrid_call.field_name,
                                                  hybrid_call.field_value)
        /\ Abs(10 * hybrid_result.breakdown.tesseract_ocr - OcrUsed) <= 5
        /\ Abs(10 * hybrid_result.breakdown.image_quality - QualityUsed) <= 5

\* a found field fused with an OCR average of 87.25, reported as 87.2, whose
\* result is not the rounding of the sum over the breakdown
C1_Witness ==
    /\ Fused
    /\ ~IsNone(hybrid_call.field_value)
    /\ hybrid_call.meta_avg = <<8725>>
    /\ hybrid_result.breakdown.tesseract_ocr = 872
    /\ Abs(10000 * hybrid_result.final_confidence - SumOfBreakdown) > 5000

\* C23: a call without an OCR average (none in meta, none as argument)
\* returns a result whose OCR component is the pattern component, a call
\* without an image-quality score one whose quality component is 75, and
\* a supplied OCR average (meta first, then the argument) is the OCR
\* component even when it is 0.
C23_MissingSignalProxies ==
    Fused =>
        /\ hybrid_result # NoResult
        /\ hybrid_result.breakdown.tesseract_ocr =
              (IF hybrid_call.meta_avg # <<>> THEN Round1(hybrid_call.meta_avg[1])
               ELSE IF hybrid_call.tesseract_conf # <<>>
                    THEN Round1(hybrid_call.tesseract_conf[1])
               ELSE 10 * hybrid_result.breakdown.pattern_match)
        /\ hybrid_result.breakdown.image_quality =
              (IF hybrid_call.image_quality # <<>>
               THEN Round1(hybrid_call.image_quality[1]) ELSE 750)

\* a call with no OCR average and no image quality, and a value whose
\* pattern component is neither 0 nor the quality default
C23_Witness ==
    /\ Fused
    /\ hybrid_call.meta_avg = <<>>
    /\ hybrid_call.tesseract_conf = <<>>
    /\ hybrid_call.image_quality = <<>>
    /\ hybrid_result.breakdown.pattern_match > 0
    /\ hybrid_result.breakdown.tesseract_ocr = 10 * hybrid_result.breakdown.pattern_match
    /\ hybrid_result.breakdown.image_quality = 750

(***************************************************************************)
(* Specification of the confidence stage: process_with_confidence is       *)
(* called on an extraction result.                                         *)
(***************************************************************************)
\* the OCR average in meta, the image-quality argument and whether per-field
\* OCR confidences are passed
ConfArgs ==
    { [meta_avg |-> <<>>,     quality |-> <<>>,      per_field |-> FALSE],
      [meta_avg |-> <<>>,     quality |-> <<6200>>,  per_field |-> TRUE],
      [meta_avg |-> <<125>>,  quality |-> <<7500>>,  per_field |-> FALSE],
      [meta_avg |-> <<8725>>, quality |-> <<7500>>,  per_field |-> FALSE],
      [meta_avg |-> <<10000>>, quality |-> <<10000>>, per_field |-> TRUE] }

TableSizes(document_type) ==
    IF document_type = "Marksheet" THEN 0..MaxRows ELSE {0}

ExtractionResults(meta_avg) ==
    {NoResult, [document_type |-> "Unknown", fields |-> <<>>, table |-> <<>>,
                meta |-> MetaOf(meta_avg)]}
    \cup UNION {[document_type : {d},
                 fields : FieldMaps(ExtractorKeys[d]),
                 table : {Rows(n) : n \in TableSizes(d)},
                 meta : {MetaOf(meta_avg)}] : d \in DOMAIN ExtractorKeys}

InitConf ==
    /\ pc = "confidence"
    /\ \E a \in ConfArgs :
          /\ extraction_result \in ExtractionResults(a.meta_avg)
          /\ image_quality = a.quality
          /\ ocr_confidences =
                IF a.per_field /\ "fields" \in DOMAIN extraction_result
                THEN [n \in DOMAIN extraction_result.fields |-> 8850] ELSE <<>>
    /\ enhanced_result = NoResult
    /\ IdleClassify
    /\ IdleHybrid
    /\ response_fields = NoFields
    /\ IdleOther

ProcessWithConfidence ==
    /\ pc = "confidence"
    /\ enhanced_result' \in
          process_with_confidence(extraction_result, ocr_confidences, image_quality, clock)
    /\ pc' = "enhanced"
    /\ UNCHANGED <<otherVars, extraction_result, ocr_confidences, image_quality,
                   classifyVars, hybridVars, response_fields>>

NextConf == ProcessWithConfidence

SpecConf == InitConf /\ [][NextConf]_vars

(***************************************************************************)
(* Specification of process_with_confidence called twice on the same       *)
(* inputs while the clock runs.  Float arithmetic is deterministic: where  *)
(* the model leaves the rounding of a tie open, the second call rounds as  *)
(* the first did.                                                          *)
(***************************************************************************)
MaxTicks == 2

TwiceResults(meta_avg) ==
    UNION {[document_type : {d},
            fields : FieldMapsN(ExtractorKeys[d], MaxUnsure),
            table : {<<>>},
            meta : {MetaOf(meta_avg)}] : d \in DOMAIN ExtractorKeys}

InitTwice ==
    /\ pc = "confidence"
    /\ \E a \in ConfArgs :
          /\ extraction_result \in TwiceResults(a.meta_avg)
          /\ image_quality = a.quality
          /\ ocr_confidences =
                IF a.per_field THEN [n \in DOMAIN extraction_result.fields |-> 8850]
                ELSE <<>>
    /\ enhanced_result = NoResult
    /\ IdleClassify
    /\ IdleHybrid
    /\ response_fields = NoFields
    /\ IdleOther

\* time passes
Tick ==
    /\ clock < MaxTicks
    /\ clock' = clock + 1
    /\ UNCHANGED <<pc, rerun_result, fn_call, fn_result, db, req, classifyVars,
                   hybridVars, confVars, response_fields>>

\* the second call, on the inputs of the first
ProcessAgain ==
    /\ pc = "enhanced"
    /\ \E again \in process_with_confidence(extraction_result, ocr_confidences,
                                            image_quality, clock) :
          /\ again.overall_confidence = enhanced_result.overall_confidence
          /\ rerun_result' = again
    /\ pc' = "twice"
    /\ UNCHANGED <<clock, fn_call, fn_result, db, req, classifyVars, hybridVars,
                   confVars, response_fields>>

NextTwice ==
    \/ ProcessWithConfidence
    \/ Tick
    \/ ProcessAgain

SpecTwice == InitTwice /\ [][NextTwice]_vars

\* C12: two calls of process_with_confidence on identical inputs return
\* identical dicts, metadata included.
C12_SameResultTwice == pc = "twice" => rerun_result = enhanced_result

\* apart from the time stamp the two dicts are the same
C12_SameButProcessedAt ==
    pc = "twice" =>
        /\ DOMAIN rerun_result = DOMAIN enhanced_result
        /\ \A k \in DOMAIN rerun_result \ {"metadata"} : rerun_result[k] = enhanced_result[k]
        /\ Stamped(rerun_result, 0) = Stamped(enhanced_result, 0)

(***************************************************************************)
(* Claims about the confidence stage (checked under SpecConf)              *)
(***************************************************************************)
\* process_with_confidence has returned an enhanced result
Enhanced == pc = "enhanced" /\ "fields" \in DOMAIN extraction_result
OutFields == enhanced_result.fields
IsMarksheet == enhanced_result.document_type = "Marksheet"
RowCount == Len(enhanced_result.table)
LowCount == Cardinality({n \in DOMAIN OutFields : OutFields[n].status \in {"REVIEW", "FAIL"}})

\* the fused confidence of field n of the input, and its cross-field adjustment
FusedOf(n) ==
    calculate_hybrid_confidence(n, extraction_result.fields[n],
        FieldOcr(ocr_confidences, n), image_quality,
        MetaAverage(extraction_result.meta)).final_confidence
AdjustmentOf(n) ==
    LET findings == validate_cross_fields(extraction_result.fields)
    IN  IF n \in DOMAIN findings THEN findings[n].confidence_adjustment ELSE 0

StatedPenalty ==
    IF RowCount = 0 THEN 60
    ELSE IF RowCount <= 2 THEN 75
    ELSE IF RowCount <= 4 THEN 90
    ELSE 100

\* C3: for a Marksheet the overall confidence reported in the result
\* (overall_confidence and confidence) is the unpenalized importance-weighted
\* mean multiplied by 0.60 for 0 rows, 0.75 for 1-2 rows, 0.90 for 3-4 rows and
\* 1.0 for 5 or more rows (to within one unit, whatever the rounding).
C3_PenaltyReported ==
    (Enhanced /\ IsMarksheet) =>
        /\ enhanced_result.confidence = enhanced_result.overall_confidence
        /\ \E unpenalized \in calculate_overall_confidence(OutFields) :
              Abs(100 * enhanced_result.overall_confidence - unpenalized * StatedPenalty) < 100

\* C4: whenever the Marksheet table penalty is applied (fewer than 5 rows), the
\* metadata of the result holds a table_penalty record with the original
\* confidence, the penalized confidence and the row count.
C4_PenaltyRecorded ==
    (Enhanced /\ IsMarksheet /\ RowCount < 5) =>
        /\ "table_penalty" \in DOMAIN enhanced_result.metadata
        /\ enhanced_result.metadata.table_penalty.table_count = RowCount
        /\ enhanced_result.metadata.table_penalty.penalized_confidence =
              (enhanced_result.metadata.table_penalty.original_confidence * StatedPenalty)
                 \div 100

\* the overall confidence after the table penalty: the reported (unpenalized)
\* value times the multiplier for a Marksheet, the reported value otherwise
FinalOverall ==
    IF IsMarksheet THEN (enhanced_result.overall_confidence * StatedPenalty) \div 100
    ELSE enhanced_result.overall_confidence

\* C5: metadata.suggest_rescan is true if and only if the final overall
\* confidence (after the Marksheet table penalty) is below 70 or at least 3
\* fields have status REVIEW or FAIL.
C5_SuggestRescan ==
    Enhanced =>
        /\ enhanced_result.metadata.low_confidence_count = LowCount
        /\ enhanced_result.metadata.suggest_rescan <=> (FinalOverall < 70 \/ LowCount >= 3)

\* a re-scan suggested for the overall confidence alone: fewer than 3 fields
\* in REVIEW or FAIL
C5_Witness ==
    /\ Enhanced
    /\ ~IsMarksheet
    /\ LowCount < 3
    /\ enhanced_result.overall_confidence < 70
    /\ enhanced_result.metadata.suggest_rescan

\* the names of the annotated fields whose value is null or blank
EmptyNames == {n \in DOMAIN OutFields : ~CountsForOverall(OutFields[n])}
NonEmptyNames == DOMAIN OutFields \ EmptyNames
\* annotated null and blank fields of an unlisted name, of any confidence
ExtraEmpty ==
    {[value |-> v, confidence |-> c, breakdown |-> <<>>, threshold |-> 80,
      status |-> "FAIL", cross_validation |-> <<>>] :
        v \in {NoneV, StrV(<<>>), StrV(<<" ">>)}, c \in {0, 100}}
\* the weighted sum and the weight of the non-empty fields
NonEmptyWeighted ==
    SumOver(NonEmptyNames,
            [n \in NonEmptyNames |-> OutFields[n].confidence * ImportanceWeight(n)])
NonEmptyWeight == SumOver(NonEmptyNames, [n \in NonEmptyNames |-> ImportanceWeight(n)])

\* C6: the overall confidence is the importance-weighted mean, to the nearest
\* integer, of the confidences of the fields whose value is neither null nor
\* blank; removing null/empty fields (any one of them, or all of them), or
\* adding one with any confidence, leaves it unchanged; with no non-empty
\* field it is 0.
C6_EmptyFieldsIgnored ==
    Enhanced =>
        LET overall == calculate_overall_confidence(OutFields)
        IN  /\ enhanced_result.overall_confidence \in overall
            /\ IF NonEmptyNames = {} THEN enhanced_result.overall_confidence = 0
               ELSE 2 * Abs(enhanced_result.overall_confidence * NonEmptyWeight
                              - NonEmptyWeighted) <= NonEmptyWeight
            /\ \A removed \in {EmptyNames} \cup {{n} : n \in EmptyNames} :
                  calculate_overall_confidence(
                      [n \in DOMAIN OutFields \ removed |-> OutFields[n]]) = overall
            /\ \A extra \in ExtraEmpty :
                  calculate_overall_confidence(DictSet(OutFields, "remarks", extra)) = overall

\* a result with found fields of different confidences next to null and blank
\* fields that carry a confidence of their own
C6_Witness ==
    /\ Enhanced
    /\ \E n, m \in NonEmptyNames : OutFields[n].confidence # OutFields[m].confidence
    /\ \E n \in EmptyNames : IsNone(OutFields[n].value) /\ OutFields[n].confidence > 0
    /\ \E n \in EmptyNames : ~IsNone(OutFields[n].value) /\ OutFields[n].confidence > 0
    /\ enhanced_result.overall_confidence > 0

\* a result without any found field
C6_NoneFound == Enhanced /\ NonEmptyNames = {} /\ EmptyNames # {}

\* the names listed in metadata.low_confidence_fields
LowListed == {entry.field : entry \in enhanced_result.metadata.low_confidence_fields}
\* the fields with a value that are in REVIEW or FAIL
LowWithValue == {n \in NonEmptyNames : OutFields[n].status \in {"REVIEW", "FAIL"}}

\* the overall confidence the call holds after "Apply table penalty for
\* Marksheets"
AfterPenalty ==
    IF IsMarksheet THEN Penalized(enhanced_result.overall_confidence, RowCount)
    ELSE enhanced_result.overall_confidence

\* C28: a field whose value is null or blank is neither listed in
\* metadata.low_confidence_fields nor counted in low_confidence_count, so
\* suggest_rescan is true only if the final overall confidence is below 70
\* or at least 3 fields with a value are in REVIEW or FAIL.
C28_EmptyFieldsNotLow ==
    Enhanced =>
        /\ LowListed \cap EmptyNames = {}
        /\ enhanced_result.metadata.low_confidence_count = Cardinality(LowWithValue)
        /\ enhanced_result.metadata.suggest_rescan =>
              (AfterPenalty < 70 \/ Cardinality(LowWithValue) >= 3)

\* what the code keeps: the listed fields are the fields in REVIEW or FAIL,
\* with or without a value, and a field whose value is null is among them
C28_EmptyFieldsListed ==
    Enhanced =>
        /\ LowListed = {n \in DOMAIN OutFields : OutFields[n].status \in {"REVIEW", "FAIL"}}
        /\ enhanced_result.metadata.low_confidence_count = Cardinality(LowListed)
        /\ \A n \in EmptyNames : IsNone(OutFields[n].value) => n \in LowListed

\* the OCR average and the image quality of the call are within 0..100
ScoresInRange ==
    /\ \A average \in Range(MetaAverage(extraction_result.meta)) : average \in 0..10000
    /\ \A quality \in Range(image_quality) : quality \in 0..10000
    /\ \A n \in DOMAIN ocr_confidences : ocr_confidences[n] \in 0..10000

\* C27: with an OCR average and an image quality in 0..100, the four
\* breakdown components of every field, every field's confidence after the
\* cross-field adjustment and the overall confidence before and after the
\* table penalty are all within 0..100.
C27_ConfidencesInRange ==
    (Enhanced /\ ScoresInRange) =>
        /\ \A n \in DOMAIN OutFields :
              /\ OutFields[n].breakdown.tesseract_ocr \in 0..1000
              /\ OutFields[n].breakdown.pattern_match \in 0..100
              /\ OutFields[n].breakdown.image_quality \in 0..1000
              /\ OutFields[n].breakdown.business_rules \in 0..100
              /\ OutFields[n].confidence \in 0..100
        /\ enhanced_result.overall_confidence \in 0..100
        /\ enhanced_result.confidence \in 0..100
        /\ AfterPenalty \in 0..100

\* a call with an OCR average and an image quality of 100, where one field
\* reaches 100, a cross-field finding lowers another field, and the overall
\* confidence is in between
C27_Witness ==
    /\ Enhanced
    /\ ScoresInRange
    /\ MetaAverage(extraction_result.meta) = <<10000>>
    /\ image_quality = <<10000>>
    /\ \E n \in DOMAIN OutFields : OutFields[n].confidence = 100
    /\ \E n \in DOMAIN OutFields :
          /\ AdjustmentOf(n) < 0
          /\ OutFields[n].confidence = FusedOf(n) + AdjustmentOf(n)
    /\ 0 < AfterPenalty
    /\ AfterPenalty < 100

(***************************************************************************)
(* Specification of the scan pipeline (ocr_routes.py:165-371) on the path  *)
(* where the heavy service gives no result: run_light_api calls            *)
(* process_document, process_with_confidence and add_extraction_summary,   *)
(* and the response is built by ScanResponse.to_dict.  The file name, the  *)
(* text preview and the filled-field ratio of process_document (replaced   *)
(* by process_with_confidence) are left out of the result.                 *)
(***************************************************************************)
\* the recognised text of a scan: nothing, or one line
ScannedTexts == {EmptyText} \cup {[pad |-> 0, lines |-> <<i>>] : i \in DOMAIN Vocabulary}
\* the OCR average that extract_all_ocr_data_single_pass reports, if any
ScanAverages == {<<>>, <<125>>, <<8725>>}
\* the quality_score that check_image_quality reports, if it was called
ScanQualities == {<<>>, <<6200>>}

\* result['meta'] as process_document populates it: image_quality is
\* image_quality_info, an empty dict when no quality was computed
ScanMeta(average, quality) ==
    DictSet(MetaOf(average), "image_quality",
            IF quality = <<>> THEN <<>> ELSE [quality_score |-> quality[1]])

\* self.document_type or "Unknown"; a document type None is the string "None"
TypeOrUnknown(document_type) == IF document_type = "None" THEN "Unknown" ELSE document_type

\* add_extraction_summary, whose implementation (services.extraction_summary)
\* is not part of the sources: taken to add the key the route reads
add_extraction_summary(enhanced) == DictSet(enhanced, "extraction_summary", <<>>)

Init ==
    /\ pc = "start"
    /\ text \in ScannedTexts
    /\ v2_result = NoV2
    /\ old_result = "Unset"
    /\ smart_type = "Unset"
    /\ IdleHybrid
    /\ IdleConf
    /\ response_fields = NoFields
    /\ IdleOther

\* process_document: classification, then the extractor of the type
ProcessDocument ==
    /\ pc = "start"
    /\ \E r \in {classify_document_smart(text)} :
          /\ v2_result' = r.v2
          /\ old_result' = r.old
          /\ smart_type' = r.type
          /\ \E fields \in FieldsOfType(r.type, text), average \in ScanAverages,
                quality \in ScanQualities :
                extraction_result' = [document_type |-> r.type, fields |-> fields,
                                      table |-> <<>>, meta |-> ScanMeta(average, quality)]
    /\ pc' = "extracted"
    /\ UNCHANGED <<otherVars, text, hybridVars, ocr_confidences, image_quality, enhanced_result,
                   response_fields>>

\* process_document when text recognition raises: the initial result with 'error'
ProcessDocumentFails ==
    /\ pc = "start"
    /\ extraction_result' = [document_type |-> "None", fields |-> <<>>, table |-> <<>>,
                             meta |-> <<>>, error |-> "error"]
    /\ pc' = "extracted"
    /\ UNCHANGED <<otherVars, classifyVars, hybridVars, ocr_confidences, image_quality,
                   enhanced_result, response_fields>>

\* run_light_api after process_document: the quality metrics are read from the
\* top level of the result, where process_document puts none
RunLightApi ==
    /\ pc = "extracted"
    /\ ocr_confidences' = DictGet(extraction_result, "field_ocr_confidences", <<>>)
    /\ image_quality' =
          <<DictGet(DictGet(extraction_result, "image_quality", <<>>), "quality_score",
                    DEFAULT_IMAGE_QUALITY)>>
    /\ \E enhanced \in process_with_confidence(extraction_result, ocr_confidences',
                                               image_quality', clock) :
          enhanced_result' = add_extraction_summary(enhanced)
    /\ pc' = "enhanced"
    /\ UNCHANGED <<otherVars, classifyVars, hybridVars, extraction_result, response_fields>>

\* scan_document builds the response: ScanResponse.to_dict normalizes the fields
Respond ==
    /\ pc = "enhanced"
    /\ response_fields' = normalize_fields(DictGet(enhanced_result, "fields", <<>>),
                                           TypeOrUnknown(enhanced_result.document_type))
    /\ pc' = "responded"
    /\ UNCHANGED <<otherVars, classifyVars, hybridVars, confVars>>

\* scan_document when the database cannot be reached: a response without fields
RespondDatabaseFailed ==
    /\ pc = "enhanced"
    /\ pc' = "failed"
    /\ UNCHANGED <<otherVars, classifyVars, hybridVars, confVars, response_fields>>

Next ==
    \/ ProcessDocument
    \/ ProcessDocumentFails
    \/ RunLightApi
    \/ Respond
    \/ RespondDatabaseFailed

Spec == Init /\ [][Next]_vars

\* meta.image_quality.quality_score of the result of process_document,
\* <<>> when no quality score was computed
ComputedQuality ==
    IF "image_quality" \notin DOMAIN extraction_result.meta THEN <<>>
    ELSE IF "quality_score" \notin DOMAIN extraction_result.meta.image_quality THEN <<>>
    ELSE <<extraction_result.meta.image_quality.quality_score>>

\* C30: on the Light path the image-quality component of every field is the
\* quality_score that process_document stored in meta.image_quality, and
\* the default 75 only when no quality score was computed.
C30_LightQualityFromMeta ==
    (pc = "enhanced" /\ "fields" \in DOMAIN enhanced_result) =>
        \A n \in DOMAIN enhanced_result.fields :
            enhanced_result.fields[n].breakdown.image_quality =
                (IF ComputedQuality # <<>> THEN Round1(ComputedQuality[1])
                 ELSE Round1(DEFAULT_IMAGE_QUALITY))

\* what the code keeps: the component is the default 75 for every field,
\* whatever quality score was computed
C30_LightQualityIsDefault ==
    (pc = "enhanced" /\ "fields" \in DOMAIN enhanced_result) =>
        /\ image_quality = <<DEFAULT_IMAGE_QUALITY>>
        /\ \A n \in DOMAIN enhanced_result.fields :
              enhanced_result.fields[n].breakdown.image_quality =
                  Round1(DEFAULT_IMAGE_QUALITY)

(***************************************************************************)
(* Specification of a scan of an Aadhaar card: the light path of /scan on  *)
(* a text that holds a 12-digit grouped number, "UIDAI", the word Female   *)
(* and a DD/MM/YYYY date, and possibly one more line.                      *)
(***************************************************************************)
NumberLines == {i \in DOMAIN Vocabulary : ReHit[i]["AADHAAR_NUMBER"]}
UidaiLines == {i \in DOMAIN Vocabulary : SubAt[i]["UIDAI"] # {}}
DateLines == {i \in DOMAIN Vocabulary : ReHit[i]["DATE"]}
FemaleLines ==
    {i \in DOMAIN Vocabulary :
        FirstB(Upper(Vocabulary[i]), Lit(<<"F", "E", "M", "A", "L", "E">>)) # <<>>}

CardTexts ==
    {[pad |-> p, lines |-> LinesOf({n, u, d, f} \cup X)] :
        p \in {0, HEAD}, n \in NumberLines, u \in UidaiLines, d \in DateLines,
        f \in FemaleLines, X \in {{}} \cup {{x} : x \in DOMAIN Vocabulary}}

InitCard ==
    /\ pc = "start"
    /\ text \in CardTexts
    /\ v2_result = NoV2
    /\ old_result = "Unset"
    /\ smart_type = "Unset"
    /\ IdleHybrid
    /\ IdleConf
    /\ response_fields = NoFields
    /\ IdleOther

SpecCard == InitCard /\ [][Next]_vars

\* the text holds the four marks of an Aadhaar card and was recognised
IsCard ==
    /\ pc \in {"enhanced", "responded"}
    /\ "error" \notin DOMAIN extraction_result
    /\ \E i \in DOMAIN text.lines : text.lines[i] \in NumberLines
    /\ \E i \in DOMAIN text.lines : text.lines[i] \in UidaiLines
    /\ \E i \in DOMAIN text.lines : text.lines[i] \in DateLines
    /\ \E i \in DOMAIN text.lines : text.lines[i] \in FemaleLines

\* Aadhaar with classifier confidence >= 70, gender Female with status PASS,
\* and a date of birth
CardRead ==
    /\ v2_result.document_type = "Aadhaar"
    /\ v2_result.confidence >= 70
    /\ smart_type = "Aadhaar"
    /\ enhanced_result.document_type = "Aadhaar"
    /\ enhanced_result.fields["gender"].value = StrV(<<"F", "e", "m", "a", "l", "e">>)
    /\ enhanced_result.fields["gender"].status = "PASS"
    /\ ~IsNone(enhanced_result.fields["dob"].value)

\* C13 as stated: every text with a 12-digit grouped number, "UIDAI", the
\* token Female and a DD/MM/YYYY date yields Aadhaar with classifier
\* confidence >= 70, gender Female with status PASS and a non-null dob.
C13_AadhaarCard == IsCard => CardRead

\* the first gender word of the text, <<>> without one
FirstGenderWordOf(t) ==
    LET found == {i \in DOMAIN t.lines : LineFinds[t.lines[i]].gender_word # <<>>}
    IN  IF found = {} THEN <<>> ELSE LineFinds[t.lines[SetMin(found)]].gender_word

\* no keyword that costs Aadhaar points, "UIDAI" within the first 500
\* characters, and Aadhaar ahead of the other types
CleanCard(t) ==
    /\ HasSubIn(t, "UIDAI", HEAD)
    /\ ~HasSub(t, "INCOME_TAX")
    /\ ~HasSub(t, "ELECTION")
    /\ ~HasSub(t, "ENROLMENT")
    /\ ~HasSubIn(t, "APPLICATION", FORM_HEAD)
    /\ ScoreAadhaar(t) > ScorePAN(t)
    /\ \A k \in DOMAIN DocTypes : RawScores(t)[k] <= ScoreAadhaar(t)

\* an OCR average of 50, in hundredths
OCR_ENOUGH == 50 * 100

\* C13 (amended): a text with the four marks that is a clean card, whose
\* first gender word is Female and whose OCR average is absent or at least
\* 50, yields Aadhaar with classifier confidence >= 70, gender Female with
\* status PASS and a non-null dob.
C13_CleanAadhaarCard ==
    ( /\ IsCard
      /\ CleanCard(text)
      /\ FirstGenderWordOf(text) = <<"F", "E", "M", "A", "L", "E">>
      /\ \A i \in DOMAIN MetaAverage(extraction_result.meta) :
            MetaAverage(extraction_result.meta)[i] >= OCR_ENOUGH )
    => CardRead

\* a clean card with one more line, scanned with an OCR average, was read
C13_Witness ==
    /\ IsCard
    /\ pc = "responded"
    /\ CleanCard(text)
    /\ Len(text.lines) = 5
    /\ FirstGenderWordOf(text) = <<"F", "E", "M", "A", "L", "E">>
    /\ MetaAverage(extraction_result.meta) = <<8725>>
    /\ CardRead

(***************************************************************************)
(* Specification of the stages called one by one on the same text: the     *)
(* classifiers, then the extractor of any document type, then the          *)
(* confidence stage on what that extractor returned.                       *)
(***************************************************************************)
BlankTexts == {t \in Texts : IsBlankText(t)}

InitStages ==
    /\ pc = "classify"
    /\ text \in BlankTexts \cup ScannedTexts
    /\ v2_result = NoV2
    /\ old_result = "Unset"
    /\ smart_type = "Unset"
    /\ IdleHybrid
    /\ IdleConf
    /\ response_fields = NoFields
    /\ IdleOther

\* one of the five extractors is called on the text
RunExtractor ==
    /\ pc = "classified"
    /\ \E d \in DOMAIN ExtractorKeys :
          \E fields \in FieldsOfType(d, text) :
             extraction_result' = [document_type |-> d, fields |-> fields,
                                   table |-> <<>>, meta |-> <<>>]
    /\ pc' = "extracted"
    /\ UNCHANGED <<otherVars, classifyVars, hybridVars, ocr_confidences, image_quality,
                   enhanced_result, response_fields>>

\* process_with_confidence(result) on the extractor's dict
RunConfidence ==
    /\ pc = "extracted"
    /\ enhanced_result' \in
          process_with_confidence(extraction_result, ocr_confidences, image_quality, clock)
    /\ pc' = "enhanced"
    /\ UNCHANGED <<otherVars, classifyVars, hybridVars, extraction_result, ocr_confidences,
                   image_quality, response_fields>>

NextStages ==
    \/ ClassifySmart
    \/ RunExtractor
    \/ RunConfidence

SpecStages == InitStages /\ [][NextStages]_vars

MaxThreads == 2
MaxSaves == 2

Threads == 1..MaxThreads
ScanIds == {"scan-1", "scan-2"}
ANONYMOUS == "0000"
UserIds == {ANONYMOUS, "user-1"}

IdleThread == [pc |-> "idle", saves |-> 0]

\* the submissions of the pair
SubmissionsOf(submissions, scan_id, user_id) ==
    {s \in submissions : s.scan_id = scan_id /\ s.user_id = user_id}

InitSubmit ==
    /\ pc = "serving"
    /\ db = [submissions |-> {}, scan_status |-> [s \in ScanIds |-> "scanned"],
             inserted |-> 0]
    /\ req = [th \in Threads |-> IdleThread]
    /\ clock = 0
    /\ rerun_result = NoResult
    /\ fn_call = NoResult
    /\ fn_result = NoResult
    /\ IdleClassify
    /\ IdleHybrid
    /\ IdleConf
    /\ response_fields = NoFields

\* submit_document / scan_document (auto-submit) call db.save_submission
CallSaveSubmission(th) ==
    /\ req[th].pc = "idle"
    /\ req[th].saves < MaxSaves
    /\ \E scan_id \in ScanIds, user_id \in UserIds :
          req' = [req EXCEPT ![th] =
                     [pc |-> "find_one", saves |-> req[th].saves + 1,
                      scan_id |-> scan_id, user_id |-> user_id]]
    /\ UNCHANGED db

\* existing_submission = self.submissions.find_one({scan_id, user_id})
FindOne(th) ==
    /\ req[th].pc = "find_one"
    /\ \E existing \in
          IF SubmissionsOf(db.submissions, req[th].scan_id, req[th].user_id) = {}
          THEN {NoResult}
          ELSE SubmissionsOf(db.submissions, req[th].scan_id, req[th].user_id) :
             req' = [req EXCEPT ![th] =
                        [pc |-> "write", saves |-> req[th].saves,
                         scan_id |-> req[th].scan_id, user_id |-> req[th].user_id,
                         existing |-> existing]]
    /\ UNCHANGED db

\* if existing_submission: self.submissions.update_one({submission_id}, {$set})
UpdateOne(th) ==
    /\ req[th].pc = "write"
    /\ req[th].existing # NoResult
    /\ db' = [db EXCEPT !.submissions =
                 {IF s.submission_id = req[th].existing.submission_id
                  THEN [s EXCEPT !.saved_by = th] ELSE s : s \in db.submissions}]
    /\ req' = [req EXCEPT ![th] =
                  [pc |-> "update_scan", saves |-> req[th].saves,
                   scan_id |-> req[th].scan_id, user_id |-> req[th].user_id,
                   created |-> FALSE,
                   submission_id |-> req[th].existing.submission_id]]

\* else: submission_id = str(uuid4()); self.submissions.insert_one(doc)
InsertOne(th) ==
    /\ req[th].pc = "write"
    /\ req[th].existing = NoResult
    /\ db' = [db EXCEPT
                 !.submissions = @ \cup {[submission_id |-> db.inserted + 1,
                                          scan_id |-> req[th].scan_id,
                                          user_id |-> req[th].user_id,
                                          saved_by |-> th]},
                 !.inserted = @ + 1]
    /\ req' = [req EXCEPT ![th] =
                  [pc |-> "update_scan", saves |-> req[th].saves,
                   scan_id |-> req[th].scan_id, user_id |-> req[th].user_id,
                   created |-> TRUE,
                   submission_id |-> db.inserted + 1]]

\* self.scans.update_one({scan_id}, {$set: {status: submitted}}); return
UpdateScanStatus(th) ==
    /\ req[th].pc = "update_scan"
    /\ db' = [db EXCEPT !.scan_status[req[th].scan_id] = "submitted"]
    /\ req' = [req EXCEPT ![th] = [pc |-> "idle", saves |-> req[th].saves]]

NextSubmit ==
    /\ \E th \in Threads :
          \/ CallSaveSubmission(th)
          \/ FindOne(th)
          \/ UpdateOne(th)
          \/ InsertOne(th)
          \/ UpdateScanStatus(th)
    /\ UNCHANGED <<pc, clock, rerun_result, fn_call, fn_result, classifyVars, hybridVars,
                   confVars, response_fields>>

SpecSubmit == InitSubmit /\ [][NextSubmit]_vars

\* C17: after any interleaving of save_submission calls the submissions
\* collection holds at most one submission per (scan_id, user_id), and a
\* save never creates a submission for a pair that already has one.
C17_OneSubmissionPerPair ==
    /\ \A scan_id \in ScanIds, user_id \in UserIds :
          Cardinality(SubmissionsOf(db.submissions, scan_id, user_id)) <= 1
    /\ \A th \in Threads :
          (req[th].pc = "update_scan" /\ req[th].created) =>
              SubmissionsOf(db.submissions, req[th].scan_id, req[th].user_id) =
                  {s \in db.submissions : s.submission_id = req[th].submission_id}

\* when no other save is between its find_one and its write, a save for a
\* pair that has a submission updates it and returns its submission_id
C17_UpdatesWhenAlone ==
    \A th \in Threads :
        ( /\ req[th].pc = "update_scan"
          /\ \A other \in Threads \ {th} : req[other].pc \notin {"write", "update_scan"}
          /\ Cardinality(SubmissionsOf(db.submissions, req[th].scan_id,
                                       req[th].user_id)) = 1 )
        => \E s \in db.submissions :
              /\ s.submission_id = req[th].submission_id
              /\ s.scan_id = req[th].scan_id
              /\ s.user_id = req[th].user_id

(***************************************************************************)
(* Specification of the endpoints that act on a stored scan                *)
(* (ocr_routes.py: rescan_document, edit_scan, get_edit, submit_document,  *)
(* set_document_title, get_document_title).  Requests are served one at a  *)
(* time; an action is one whole request.  The caller is g.user_id as set   *)
(* by optional_auth: "0000" when the request carries no token.             *)
(***************************************************************************)
MaxRequests == 2

Callers == UserIds \cup {"user-2"}
Titles == {[kind |-> "str", title |-> "My PAN Card"], [kind |-> "str", title |-> "Renamed"]}
EditValues == {[kind |-> "dict", name |-> "edited"]}
DEFAULT_TITLE == [kind |-> "str", title |-> "PAN"]
MISSING_EDIT == 0

Reply(status, d) == [status |-> status, db |-> d]

\* a mutation: every caller owns every document
anyone_may(document, current_user_id) == TRUE

\* auth.py check_document_ownership
check_document_ownership(document, current_user_id) ==
    IF document.user_id = ANONYMOUS THEN TRUE
    ELSE IF document.user_id = current_user_id THEN TRUE
    ELSE FALSE

\* DatabaseService.save_submission run without interleaving: with_title is
\* FALSE when submission_data has no 'title' key
save_submission(d, scan_id, user_id, with_title, title) ==
    IF SubmissionsOf(d.submissions, scan_id, user_id) # {}
    THEN [d EXCEPT
            !.submissions =
                {IF s.scan_id = scan_id /\ s.user_id = user_id
                 THEN [s EXCEPT !.title = IF with_title THEN title ELSE @,
                                !.saves = @ + 1]
                 ELSE s : s \in d.submissions},
            !.scans[scan_id].status = "submitted"]
    ELSE [d EXCEPT
            !.submissions = @ \cup {[submission_id |-> d.made + 1, scan_id |-> scan_id,
                                     user_id |-> user_id,
                                     title |-> IF with_title THEN title ELSE NoResult,
                                     saves |-> 1]},
            !.made = @ + 1,
            !.scans[scan_id].status = "submitted"]

\* DatabaseService.save_rescan
save_rescan(d, original_scan_id, user_id) ==
    [d EXCEPT !.rescans = @ \cup {[rescan_id |-> d.made + 1,
                                   scan_id |-> original_scan_id, user_id |-> user_id]},
              !.made = @ + 1,
              !.scans[original_scan_id].rescan_count = @ + 1]

EditsOf(edits, scan_id, user_id) ==
    {e \in edits : e.scan_id = scan_id /\ e.user_id = user_id}

\* DatabaseService.save_or_update_edit
save_or_update_edit(d, scan_id, user_id, edited_fields) ==
    IF EditsOf(d.edits, scan_id, user_id) # {}
    THEN [d EXCEPT !.edits =
             {IF e.scan_id = scan_id /\ e.user_id = user_id
              THEN [e EXCEPT !.edited_fields = edited_fields, !.saves = @ + 1]
              ELSE e : e \in d.edits}]
    ELSE [d EXCEPT !.edits = @ \cup {[edit_id |-> d.made + 1, scan_id |-> scan_id,
                                      user_id |-> user_id,
                                      edited_fields |-> edited_fields, saves |-> 1]},
                   !.made = @ + 1]

\* POST /rescan/<scan_id>
rescan_document(d, r) ==
    IF ~check_document_ownership(d.scans[r.scan_id], r.user_id) THEN Reply(403, d)
    ELSE IF d.scans[r.scan_id].stored /\ r.upload = "none"
              /\ r.scan_id \notin d.files THEN Reply(404, d)
    ELSE IF r.upload = "invalid" THEN Reply(400, d)
    ELSE IF ~d.scans[r.scan_id].stored /\ r.upload = "none" THEN Reply(400, d)
    ELSE IF ~r.ocr_ok THEN Reply(500, d)
    ELSE IF r.auto_submit
         THEN Reply(200, save_submission(save_rescan(d, r.scan_id, r.user_id),
                                         r.scan_id, r.user_id, FALSE, NoResult))
         ELSE Reply(200, save_rescan(d, r.scan_id, r.user_id))

\* PUT /edit/<scan_id>
edit_scan(d, r) ==
    IF ~check_document_ownership(d.scans[r.scan_id], r.user_id) THEN Reply(403, d)
    ELSE IF r.edited_fields = NoResult THEN Reply(400, d)
    ELSE Reply(200, save_or_update_edit(d, r.scan_id, r.user_id, r.edited_fields))

\* GET /edit/<scan_id>
get_edit(d, r) ==
    IF ~check_document_ownership(d.scans[r.scan_id], r.user_id) THEN Reply(403, d)
    ELSE IF EditsOf(d.edits, r.scan_id, r.user_id) = {} THEN Reply(404, d)
    ELSE Reply(200, d)

\* the title a submission gets: the body's, else the existing one, else the
\* scan's document type
SubmitTitle(d, r) ==
    IF r.title # NoResult THEN r.title
    ELSE IF \E s \in SubmissionsOf(d.submissions, r.scan_id, r.user_id) : s.title # NoResult
         THEN (CHOOSE s \in SubmissionsOf(d.submissions, r.scan_id, r.user_id) : TRUE).title
         ELSE DEFAULT_TITLE

\* cleanup after a submission: the stored file and the edit are deleted
Cleanup(d, r) ==
    [d EXCEPT !.files = IF d.scans[r.scan_id].stored THEN @ \ {r.scan_id} ELSE @,
              !.edits = IF r.edit_id # <<>>
                        THEN {e \in @ : e.edit_id # r.edit_id[1]} ELSE @]

\* POST /submit/<scan_id>
submit_document(d, r) ==
    IF ~check_document_ownership(d.scans[r.scan_id], r.user_id) THEN Reply(403, d)
    ELSE IF r.edit_id # <<>> /\ \A e \in d.edits : e.edit_id # r.edit_id[1]
         THEN Reply(404, d)
    ELSE IF r.edit_id # <<>>
              /\ \E e \in d.edits : e.edit_id = r.edit_id[1] /\ e.user_id # r.user_id
         THEN Reply(403, d)
    ELSE IF r.edit_id # <<>>
              /\ \E e \in d.edits : e.edit_id = r.edit_id[1] /\ e.scan_id # r.scan_id
         THEN Reply(400, d)
    ELSE IF r.cleanup
         THEN Reply(200, Cleanup(save_submission(d, r.scan_id, r.user_id, TRUE,
                                                 SubmitTitle(d, r)), r))
         ELSE Reply(200, save_submission(d, r.scan_id, r.user_id, TRUE,
                                         SubmitTitle(d, r)))

\* POST /title/<scan_id>: the body is validated before the scan is looked up
set_document_title(d, r) ==
    IF r.title = NoResult THEN Reply(400, d)
    ELSE IF ~check_document_ownership(d.scans[r.scan_id], r.user_id) THEN Reply(403, d)
    ELSE IF SubmissionsOf(d.submissions, r.scan_id, r.user_id) = {} THEN Reply(404, d)
    ELSE Reply(200, [d EXCEPT !.submissions =
                        {IF s.scan_id = r.scan_id /\ s.user_id = r.user_id
                         THEN [s EXCEPT !.title = r.title] ELSE s : s \in d.submissions}])

\* GET /title/<scan_id>
get_document_title(d, r) ==
    IF ~check_document_ownership(d.scans[r.scan_id], r.user_id) THEN Reply(403, d)
    ELSE IF SubmissionsOf(d.submissions, r.scan_id, r.user_id) = {} THEN Reply(404, d)
    ELSE Reply(200, d)

StoredScans ==
    {[s \in ScanIds |-> [user_id |-> IF s = "scan-1" THEN "user-1" ELSE ANONYMOUS,
                         stored |-> (s = "scan-1" /\ stored), status |-> "scanned",
                         rescan_count |-> 0]] : stored \in BOOLEAN}

InitAccess ==
    /\ pc = "serving"
    /\ \E scans \in StoredScans :
          db = [scans |-> scans, files |-> {s \in ScanIds : scans[s].stored},
                rescans |-> {}, edits |-> {}, submissions |-> {}, made |-> 0]
    /\ req = [served |-> 0, last |-> NoResult]
    /\ clock = 0
    /\ rerun_result = NoResult
    /\ fn_call = NoResult
    /\ fn_result = NoResult
    /\ IdleClassify
    /\ IdleHybrid
    /\ IdleConf
    /\ response_fields = NoFields

\* the request is served: the reply and the database it leaves
Served(r, reply) ==
    /\ db' = reply.db
    /\ req' = [served |-> req.served + 1,
               last |-> [request |-> r, status |-> reply.status, before |-> db]]

Rescan ==
    /\ req.served < MaxRequests
    /\ \E scan_id \in ScanIds, user_id \in Callers,
          upload \in {"none", "valid", "invalid"}, ocr_ok \in BOOLEAN,
          auto_submit \in BOOLEAN :
          \E r \in {[endpoint |-> "rescan", scan_id |-> scan_id, user_id |-> user_id,
                     upload |-> upload, ocr_ok |-> ocr_ok,
                     auto_submit |-> auto_submit]} :
             Served(r, rescan_document(db, r))

EditScan ==
    /\ req.served < MaxRequests
    /\ \E scan_id \in ScanIds, user_id \in Callers,
          edited_fields \in {NoResult} \cup EditValues :
          \E r \in {[endpoint |-> "edit", scan_id |-> scan_id, user_id |-> user_id,
                     edited_fields |-> edited_fields]} :
             Served(r, edit_scan(db, r))

GetEdit ==
    /\ req.served < MaxRequests
    /\ \E scan_id \in ScanIds, user_id \in Callers :
          \E r \in {[endpoint |-> "get_edit", scan_id |-> scan_id, user_id |-> user_id]} :
             Served(r, get_edit(db, r))

Submit ==
    /\ req.served < MaxRequests
    /\ \E scan_id \in ScanIds, user_id \in Callers,
          edit_id \in {<<>>, <<MISSING_EDIT>>} \cup {<<e.edit_id>> : e \in db.edits},
          title \in {NoResult} \cup Titles, cleanup \in BOOLEAN :
          \E r \in {[endpoint |-> "submit", scan_id |-> scan_id, user_id |-> user_id,
                     edit_id |-> edit_id, title |-> title,
                     cleanup |-> cleanup]} :
             Served(r, submit_document(db, r))

SetTitle ==
    /\ req.served < MaxRequests
    /\ \E scan_id \in ScanIds, user_id \in Callers,
          title \in {NoResult} \cup Titles :
          \E r \in {[endpoint |-> "set_title", scan_id |-> scan_id, user_id |-> user_id,
                     title |-> title]} :
             Served(r, set_document_title(db, r))

GetTitle ==
    /\ req.served < MaxRequests
    /\ \E scan_id \in ScanIds, user_id \in Callers :
          \E r \in {[endpoint |-> "get_title", scan_id |-> scan_id, user_id |-> user_id]} :
             Served(r, get_document_title(db, r))

NextAccess ==
    /\ Rescan \/ EditScan \/ GetEdit \/ Submit \/ SetTitle \/ GetTitle
    /\ UNCHANGED <<pc, clock, rerun_result, fn_call, fn_result, classifyVars, hybridVars,
                   confVars, response_fields>>

SpecAccess == InitAccess /\ [][NextAccess]_vars

\* the last request came from a caller other than the non-anonymous owner
\* of the scan it names
ForeignCall ==
    /\ req.last # NoResult
    /\ db.scans[req.last.request.scan_id].user_id # ANONYMOUS
    /\ req.last.request.user_id # db.scans[req.last.request.scan_id].user_id

TitleMissing ==
    /\ req.last.request.endpoint = "set_title"
    /\ req.last.request.title = NoResult

MaxScans == 2
HEAVY_MAX_RETRIES == 1

\* what one POST to the Heavy API can end with
HeavyReplies ==
    {[kind |-> "json", success |-> TRUE, source |-> "heavy", fields |-> f] :
        f \in {"empty", "filled"}}
    \cup {[kind |-> "json", success |-> FALSE, source |-> "heavy", fields |-> "empty"],
          [kind |-> "null"], [kind |-> "status", code |-> 404],
          [kind |-> "status", code |-> 503], [kind |-> "Timeout"],
          [kind |-> "ConnectionError"], [kind |-> "Exception"]}

\* what process_document and process_with_confidence hand back, or None
LightResults ==
    {[kind |-> "json", source |-> "light", fields |-> f] : f \in {"empty", "filled"}}
    \cup {NoResult}

\* a mutation: every failed attempt is tried again
retried_always(reply) == reply.kind \notin {"json", "null"}
\* call_heavy_api tries again after a 5xx answer, a timeout or a connection error
Retried(reply) ==
    \/ reply.kind \in {"Timeout", "ConnectionError"}
    \/ reply.kind = "status" /\ reply.code >= 500

\* a mutation: the Heavy result never counts as successful
heavy_ignored(heavy_result) == FALSE

\* if heavy_result and heavy_result.get('success')
heavy_succeeded(heavy_result) ==
    heavy_result.kind = "json" /\ heavy_result.success

IdleScan(served) ==
    [served |-> served, pc |-> "idle", heavy_calls |-> 0, heavy_ended |-> FALSE,
     heavy_result |-> NoResult, light_runs |-> 0, light_after |-> <<>>,
     light_result |-> NoResult, final_result |-> NoResult, strategy |-> "unknown",
     status |-> 0, error |-> "", returned |-> NoResult]

InitScan ==
    /\ pc = "serving"
    /\ db = [scans |-> {}, files |-> {}, submissions |-> {}, made |-> 0]
    /\ req = IdleScan(0)
    /\ clock = 0
    /\ rerun_result = NoResult
    /\ fn_call = NoResult
    /\ fn_result = NoResult
    /\ IdleClassify
    /\ IdleHybrid
    /\ IdleConf
    /\ response_fields = NoFields

\* the request arrives; a missing or refused file is answered 400
ScanRequest ==
    /\ req.pc \in {"idle", "done"}
    /\ req.served < MaxScans
    /\ \E user_id \in UserIds, auto_submit \in BOOLEAN, upload \in {"valid", "invalid"},
          heavy_url \in BOOLEAN :
          req' = [IdleScan(req.served + 1) EXCEPT
                     !.pc = IF upload = "valid" THEN "heavy" ELSE "done",
                     !.status = IF upload = "valid" THEN 0 ELSE 400,
                     !.error = IF upload = "valid" THEN "" ELSE "No file uploaded"]
                 @@ [user_id |-> user_id, auto_submit |-> auto_submit,
                     heavy_url |-> heavy_url, before |-> db]
    /\ UNCHANGED db

\* call_heavy_api without HEAVY_API_URL returns None at once
CallHeavyApiNoUrl ==
    /\ req.pc = "heavy"
    /\ ~req.heavy_url
    /\ req' = [req EXCEPT !.pc = "heavy_ended", !.heavy_ended = TRUE,
                          !.heavy_result = NoResult]
    /\ UNCHANGED db

\* call_heavy_api: one requests.post and, after it, the retry or the return
CallHeavyApi ==
    /\ req.pc = "heavy"
    /\ req.heavy_url
    /\ \E reply \in HeavyReplies :
          IF Retried(reply) /\ req.heavy_calls < HEAVY_MAX_RETRIES
          THEN req' = [req EXCEPT !.heavy_calls = @ + 1]
          ELSE req' = [req EXCEPT !.heavy_calls = @ + 1, !.pc = "heavy_ended",
                                  !.heavy_ended = TRUE,
                                  !.heavy_result =
                                      IF reply.kind = "json" THEN reply ELSE NoResult]
    /\ UNCHANGED db

\* the Heavy result is taken: strategy heavy_only
HeavyOnly ==
    /\ req.pc = "heavy_ended"
    /\ heavy_succeeded(req.heavy_result)
    /\ req' = [req EXCEPT !.pc = "save", !.final_result = req.heavy_result,
                          !.strategy = "heavy_only"]
    /\ UNCHANGED db

\* the fallback: run_light_api, then light_fallback or the 500 of both
LightFallback ==
    /\ req.pc = "heavy_ended"
    /\ ~heavy_succeeded(req.heavy_result)
    /\ \E light_result \in LightResults :
          IF light_result # NoResult
          THEN req' = [req EXCEPT !.pc = "save", !.light_runs = @ + 1,
                                  !.light_after = <<req.heavy_ended, req.heavy_result>>,
                                  !.light_result = light_result,
                                  !.final_result = light_result,
                                  !.strategy = "light_fallback"]
          ELSE req' = [req EXCEPT !.pc = "done", !.light_runs = @ + 1,
                                  !.light_after = <<req.heavy_ended, req.heavy_result>>,
                                  !.status = 500, !.error = "both failed"]
    /\ UNCHANGED db

\* get_db() fails: 500, nothing is saved
SaveScanDatabaseFailed ==
    /\ req.pc = "save"
    /\ req' = [req EXCEPT !.pc = "done", !.status = 500,
                          !.error = "Database connection failed"]
    /\ UNCHANGED db

\* db.save_scan, storage.save_file, the auto-submit and the 200 response
SaveScan ==
    /\ req.pc = "save"
    /\ \E file_saved \in BOOLEAN :
          db' = [scans |-> db.scans \cup {[scan_id |-> db.made + 1,
                                            user_id |-> req.user_id,
                                            source |-> req.final_result.source]},
                 files |-> IF file_saved THEN db.files \cup {db.made + 1} ELSE db.files,
                 submissions |->
                     IF req.auto_submit /\ req.final_result.fields = "filled"
                     THEN db.submissions \cup {[submission_id |-> db.made + 2,
                                                 scan_id |-> db.made + 1,
                                                 user_id |-> req.user_id]}
                     ELSE db.submissions,
                 made |-> db.made + 2]
    /\ req' = [req EXCEPT !.pc = "done", !.status = 200,
                          !.returned = req.final_result]

NextScan ==
    /\ \/ ScanRequest
       \/ CallHeavyApiNoUrl
       \/ CallHeavyApi
       \/ HeavyOnly
       \/ LightFallback
       \/ SaveScanDatabaseFailed
       \/ SaveScan
    /\ UNCHANGED <<pc, clock, rerun_result, fn_call, fn_result, classifyVars, hybridVars,
                   confVars, response_fields>>

SpecScan == InitScan /\ [][NextScan]_vars

\* C19: the Light processor runs only after the Heavy call has ended without
\* a successful result; after a successful Heavy result the Light processor
\* never runs and a returned result is the Heavy one; the 500 of both comes
\* only after both failed, and then nothing has been written.
C19_HeavyFirst ==
    /\ req.light_runs > 0 =>
          /\ req.light_after[1]
          /\ ~(req.light_after[2].kind = "json" /\ req.light_after[2].success)
          /\ req.light_after[2] = req.heavy_result
          /\ req.light_runs = 1
    /\ (req.heavy_result.kind = "json" /\ req.heavy_result.success) =>
          /\ req.light_runs = 0
          /\ req.error # "both failed"
          /\ req.status = 200 => req.returned = req.heavy_result
    /\ req.error = "both failed" =>
          /\ req.status = 500
          /\ req.heavy_ended
          /\ ~(req.heavy_result.kind = "json" /\ req.heavy_result.success)
          /\ req.light_runs = 1
          /\ req.light_result = NoResult
          /\ db = req.before
    /\ (req.pc = "done" /\ req.heavy_ended /\ req.light_runs = 1
          /\ req.light_result = NoResult) => req.error = "both failed"

\* a request ends with the 500 of both, after a retried Heavy call, while the
\* database holds the scan of an earlier request answered by the Heavy API
C19_Witness ==
    /\ req.error = "both failed"
    /\ req.heavy_calls = 2
    /\ \E scan \in db.scans : scan.source = "heavy"

(***************************************************************************)
(* Specification of the dob check of validate_cross_fields                 *)
(* (confidence_calculator.py:366-402): the function is called on a dict    *)
(* whose only field is dob, in a given calendar year.                      *)
(***************************************************************************)
DobDays == {<<"0">>, <<"1">>, <<"3", "1">>, <<"3", "2">>}
DobMonths == {<<"0">>, <<"0", "1">>, <<"1", "2">>, <<"1", "3">>}
DobYears ==
    {<<"1", "8", "9", "9">>, <<"1", "9", "0", "0">>, <<"2", "0", "2", "4">>,
     <<"2", "0", "2", "5">>, <<"2", "0", "2", "7">>, <<"9", "0">>}
DobTails == {<<>>, <<" ">>, <<"x">>, <<"1">>, <<"/", "5">>}
DobSeps == {<<"/">>, <<"-">>, <<".">>}
DobValues ==
    {day \o sep \o month \o sep \o year \o tail :
        day \in DobDays, sep \in DobSeps, month \in DobMonths, year \in DobYears,
        tail \in DobTails}

\* the years in which the check runs
CallYears == {YEAR_MAX_DOB, YEAR_MAX_DOB + 1, YEAR_MAX_DOB + 2}

InitDob ==
    /\ pc = "call"
    /\ fn_call \in {[dob |-> StrV(v), this_year |-> y] : v \in DobValues, y \in CallYears}
    /\ fn_result = NoResult
    /\ clock = 0
    /\ rerun_result = NoResult
    /\ db = NoResult
    /\ req = NoResult
    /\ IdleClassify
    /\ IdleHybrid
    /\ IdleConf
    /\ response_fields = NoFields

ValidateDob ==
    /\ pc = "call"
    /\ pc' = "returned"
    /\ fn_result' = validate_cross_fields([dob |-> fn_call.dob])
    /\ UNCHANGED <<fn_call, clock, rerun_result, db, req, classifyVars, hybridVars,
                   confVars, response_fields>>

NextDob == ValidateDob

SpecDob == InitDob /\ [][NextDob]_vars

\* the adjustment the rule gives a value: -50 unless the whole value is
\* D[D]/M[M]/YYYY with '/' or '-', then -40 for a day outside 1..31 or a
\* month outside 1..12, then -30 for a year outside [1900, this year], else 0
DobRule(s, this_year) ==
    IF DateFullShapes(s) = {} THEN -50
    ELSE IF \E ab \in DateFullShapes(s) :
               \/ ParseInt(SubSeq(s, 1, ab[1])) \notin 1..31
               \/ ParseInt(SubSeq(s, ab[1] + 2, ab[1] + ab[2] + 1)) \notin 1..12
         THEN -40
    ELSE IF ParseInt(SubSeq(s, Len(s) - 3, Len(s))) \notin YEAR_MIN_DOB..this_year
         THEN -30
    ELSE 0

\* C20: for a non-empty dob value validate_cross_fields emits exactly one
\* finding, with adjustment -50 when the whole value is not D[D]/M[M]/YYYY,
\* -40 when the day or the month is out of range, -30 when the year is
\* outside [1900, current year], and 0 with valid = true otherwise.
C20_DobFinding ==
    pc = "returned" =>
        /\ DOMAIN fn_result = {"dob"}
        /\ fn_result.dob.confidence_adjustment
              = DobRule(fn_call.dob.chars, fn_call.this_year)
        /\ fn_result.dob.valid = (fn_result.dob.confidence_adjustment = 0)

\* the same, for the values that are a whole date checked in the last year
\* the code's literal bound covers
C20_WholeDateIn2024 ==
    (pc = "returned" /\ DateFullShapes(fn_call.dob.chars) # {}
        /\ fn_call.this_year = YEAR_MAX_DOB) =>
        /\ DOMAIN fn_result = {"dob"}
        /\ fn_result.dob.confidence_adjustment
              = DobRule(fn_call.dob.chars, fn_call.this_year)
        /\ fn_result.dob.valid = (fn_result.dob.confidence_adjustment = 0)

(***************************************************************************)
(* Specification of the name check of validate_cross_fields                *)
(* (confidence_calculator.py:451-460): the function is called on a dict    *)
(* with name, student_name and father_name.                                *)
(***************************************************************************)
PersonNames ==
    {NoneV,
     StrV(<<>>),
     StrV(<<"R", "a", "m", " ", "K">>),
     StrV(<<"R", "A", "M", " ", "K">>),
     StrV(<<" ", "r", "a", "m", " ", "k", " ">>),
     StrV(<<"R", "a", "m", " ", " ", "K">>),
     StrV(<<"S", "i", "t", "a">>),
     StrV(<<" ">>)}
StudentNames == {NoneV, StrV(<<"R", "a", "m", " ", "K">>), StrV(<<"S", "i", "t", "a">>)}

InitFather ==
    /\ pc = "call"
    /\ fn_call \in [name : PersonNames, student_name : StudentNames,
                    father_name : PersonNames]
    /\ fn_result = NoResult
    /\ clock = 0
    /\ rerun_result = NoResult
    /\ db = NoResult
    /\ req = NoResult
    /\ IdleClassify
    /\ IdleHybrid
    /\ IdleConf
    /\ response_fields = NoFields

ValidateNames ==
    /\ pc = "call"
    /\ pc' = "returned"
    /\ fn_result' = validate_cross_fields(fn_call)
    /\ UNCHANGED <<fn_call, clock, rerun_result, db, req, classifyVars, hybridVars,
                   confVars, response_fields>>

NextFather == ValidateNames

SpecFather == InitFather /\ [][NextFather]_vars

\* the primary name: name, or student_name when name is absent
PrimaryName(fields) ==
    IF Truthy(fields.name) THEN fields.name ELSE fields.student_name

\* a value without its whitespace and in lower case
Squeezed(v) == Lower(SelectSeq(v.chars, LAMBDA c : ~IsSpace(c)))

\* the finding of the rule is there, with adjustment -50 and valid = false
FatherFinding ==
    /\ "father_name" \in DOMAIN fn_result
    /\ fn_result.father_name.confidence_adjustment = -50
    /\ ~fn_result.father_name.valid

\* C21: validate_cross_fields emits the father_name finding (-50, valid =
\* false) exactly when the primary name and father_name are both non-empty
\* and equal after ignoring letter case and all whitespace differences.
C21_FatherSameAsName ==
    pc = "returned" =>
        ( ( /\ Truthy(PrimaryName(fn_call))
            /\ Truthy(fn_call.father_name)
            /\ Squeezed(PrimaryName(fn_call)) = Squeezed(fn_call.father_name) )
          <=> "father_name" \in DOMAIN fn_result )

\* the same with only the leading and trailing whitespace ignored
C21_EqualUpToOuterBlanks ==
    pc = "returned" =>
        /\ ( /\ Truthy(PrimaryName(fn_call))
             /\ Truthy(fn_call.father_name)
             /\ Lower(Strip(PrimaryName(fn_call).chars))
                   = Lower(Strip(fn_call.father_name.chars)) )
           <=> "father_name" \in DOMAIN fn_result
        /\ "father_name" \in DOMAIN fn_result => FatherFinding

(***************************************************************************)
(* Specification of calculate_business_rules_confidence                    *)
(* (confidence_calculator.py:219-257) on one field name and one value.     *)
(***************************************************************************)
LONG_LENGTH == 200

\* a value of more than 200 characters, in mixed case and without digits
LongValue == [i \in 1..(LONG_LENGTH + 1) |-> IF i % 2 = 1 THEN "a" ELSE "B"]

DeductFields ==
    {"name", "father_name", "mother_name", "student_name", "address", "aadhaar_number",
     "pan", "voter_id", "dl_number", "mobile", "roll_no"}
DeductValues ==
    {StrV(<<"A">>),
     StrV(<<"7">>),
     StrV(<<"J", "o", "h", "n", " ", "D", "o", "e">>),
     StrV(<<"J", "O", "H", "N", " ", "D", "O", "E">>),
     StrV(<<"j", "o", "h", "n", " ", "d", "o", "e">>),
     StrV(<<"A", "A", "A", "A", "A">>),
     StrV(<<"a", "a", "a", "a", "a", "b">>),
     StrV(<<"1", "1", "1", "1", "1">>),
     StrV(<<"A", "B", "C", "D", "E", "1", "2", "3", "4", "F">>),
     StrV(<<"A", "B", "C", "D", "E", "F", "G", "H", "I", "J">>),
     StrV(<<"A", "b", "#">>),
     StrV(<<"#", "@", "#", "@", "#", "@", "#">>),
     StrV(<<" ">>),
     StrV(<<" ", "A", " ">>),
     StrV(<<"A", "b", ",", ".", "-", "/", "(", ")">>),
     StrV(<<"A", "A", "A", "A", "A", "#", "#", "#", "#", "#">>),
     StrV(LongValue), StrV(LongValue \o <<"#">>)}

InitDeduct ==
    /\ pc = "call"
    /\ fn_call \in [field_name : DeductFields, field_value : DeductValues]
    /\ fn_result = NoResult
    /\ clock = 0
    /\ rerun_result = NoResult
    /\ db = NoResult
    /\ req = NoResult
    /\ IdleClassify
    /\ IdleHybrid
    /\ IdleConf
    /\ response_fields = NoFields

BusinessRules ==
    /\ pc = "call"
    /\ pc' = "returned"
    /\ fn_result' = [score |-> calculate_business_rules_confidence(fn_call.field_name,
                                                                  fn_call.field_value)]
    /\ UNCHANGED <<fn_call, clock, rerun_result, db, req, classifyVars, hybridVars,
                   confVars, response_fields>>

NextDeduct == BusinessRules

SpecDeduct == InitDeduct /\ [][NextDeduct]_vars

\* the fields that hold a person's name, and those that must hold a digit:
\* mobile, the identifier numbers of the document types, roll number
PersonNameFields == {"name", "father_name", "mother_name", "student_name"}
MustHoldDigit == {"mobile", "aadhaar_number", "pan", "voter_id", "dl_number", "roll_no"}

\* the sum D of the deductions that apply to the value s of the field
Deductions(field_name, s, digit_fields) ==
    (IF Len(s) = 1 THEN 40 ELSE 0)
    + (IF Len(s) > LONG_LENGTH THEN 30 ELSE 0)
    + Min2(30, 5 * Cardinality({i \in DOMAIN s : s[i] \notin BusinessAllowed}))
    + (IF \E i \in DOMAIN s : i + 4 <= Len(s) /\ \A j \in 1..4 : s[i + j] = s[i]
       THEN 30 ELSE 0)
    + (IF /\ field_name \in PersonNameFields
          /\ \E i \in DOMAIN s : s[i] \in Uppers \cup Lowers
          /\ \/ \A i \in DOMAIN s : s[i] \notin Lowers
             \/ \A i \in DOMAIN s : s[i] \notin Uppers
       THEN 10 ELSE 0)
    + (IF field_name \in digit_fields /\ \A i \in DOMAIN s : s[i] \notin Digits
       THEN 50 ELSE 0)

\* C22: for a non-empty value the score is max(0, 100 - D), D the sum of the
\* deductions 40 (length 1), 30 (length over 200), 5 per disallowed special
\* character up to 30, 30 (a run of five identical characters), 10 (a name
\* in one case) and 50 (no digit in mobile, an identifier number or the
\* roll number).
C22_ScoreIsHundredMinusDeductions ==
    pc = "returned" =>
        fn_result.score
            = Max2(0, 100 - Deductions(fn_call.field_name,
                                       Strip(fn_call.field_value.chars), MustHoldDigit))

\* the same for a value that is not blank, with the four must-hold-a-digit
\* fields of the code
C22_CodeDeductions ==
    (pc = "returned" /\ Strip(fn_call.field_value.chars) # <<>>) =>
        fn_result.score
            = Max2(0, 100 - Deductions(fn_call.field_name,
                                       Strip(fn_call.field_value.chars),
                                       {"aadhaar_number", "pan", "mobile", "roll_no"}))

(***************************************************************************)
(* Specification of the date logic of extract_dl_fields                    *)
(* (extractor.py:703-718).  The text is a sequence of words separated by   *)
(* blanks: a date label, a date of the shape DD/MM/YYYY, or another word.  *)
(* A label regex matches where its label is directly followed by a date.   *)
(***************************************************************************)
MaxWords == 4

DlLabels == {"DOB", "Issue Date", "Valid Till"}
DlDates == {"01/01/1990", "02/02/2010", "03/03/2030"}
DlWords == DlLabels \cup DlDates \cup {"Licence"}
DlTexts == UNION {[1..n -> DlWords] : n \in 0..MaxWords}

DateV(date) == [kind |-> "str", date |-> date]

\* re.findall(date, text), and its distinct values in order of first appearance
AllDates(words) == SelectSeq(words, LAMBDA w : w \in DlDates)
RECURSIVE Distinct(_)
Distinct(dates) ==
    IF dates = <<>> THEN <<>>
    ELSE IF \E i \in 1..(Len(dates) - 1) : dates[i] = dates[Len(dates)]
         THEN Distinct(SubSeq(dates, 1, Len(dates) - 1))
         ELSE Append(Distinct(SubSeq(dates, 1, Len(dates) - 1)), dates[Len(dates)])

\* re.search(label[\s:]*date, text): the date after the first place where
\* the label is followed by a date, <<>> when there is none
LabelledDate(words, label) ==
    LET at == {i \in 1..(Len(words) - 1) : words[i] = label /\ words[i + 1] \in DlDates}
    IN  IF at = {} THEN <<>> ELSE <<words[SetMin(at) + 1]>>

\* unique_dates.remove(m.group(1)) for every label that matched
Remove(dates, found) == SelectSeq(dates, LAMBDA d : d \notin found)

\* "Dates - improved logic": the three date fields and the dates left over
dl_dates(words) ==
    LET dob     == LabelledDate(words, "DOB")
        issue   == LabelledDate(words, "Issue Date")
        valid   == LabelledDate(words, "Valid Till")
        left    == Remove(Distinct(AllDates(words)),
                          {d \in DlDates : <<d>> \in {dob, issue, valid}})
        after   == IF issue = <<>> /\ left # <<>> THEN Tail(left) ELSE left
    IN  [dob        |-> IF dob = <<>> THEN NoneV ELSE DateV(dob[1]),
         issue_date |-> IF issue # <<>> THEN DateV(issue[1])
                        ELSE IF left # <<>> THEN DateV(Head(left)) ELSE NoneV,
         valid_till |-> IF valid # <<>> THEN DateV(valid[1])
                        ELSE IF after # <<>> THEN DateV(Head(after)) ELSE NoneV,
         unique_dates |-> IF valid = <<>> /\ after # <<>> THEN Tail(after) ELSE after]

InitDl ==
    /\ pc = "call"
    /\ fn_call \in DlTexts
    /\ fn_result = NoResult
    /\ clock = 0
    /\ rerun_result = NoResult
    /\ db = NoResult
    /\ req = NoResult
    /\ IdleClassify
    /\ IdleHybrid
    /\ IdleConf
    /\ response_fields = NoFields

ExtractDlDates ==
    /\ pc = "call"
    /\ pc' = "returned"
    /\ fn_result' = dl_dates(fn_call)
    /\ UNCHANGED <<fn_call, clock, rerun_result, db, req, classifyVars, hybridVars,
                   confVars, response_fields>>

NextDl == ExtractDlDates

SpecDl == InitDl /\ [][NextDl]_vars

\* the dates of the text that no label claims, in order of first appearance
Unlabelled(words) ==
    Remove(Distinct(AllDates(words)),
           {d \in DlDates : \E label \in DlLabels : LabelledDate(words, label) = <<d>>})

\* the field of a label: its labelled date, else the next date of left
FilledFrom(words, label, left) ==
    IF LabelledDate(words, label) # <<>> THEN DateV(LabelledDate(words, label)[1])
    ELSE IF left # <<>> THEN DateV(Head(left)) ELSE NoneV
LeftAfter(words, label, left) ==
    IF LabelledDate(words, label) = <<>> /\ left # <<>> THEN Tail(left) ELSE left

\* C24: every labelled date goes to its field, and the fields still empty
\* among dob, issue_date and valid_till get the remaining dates in order of
\* first appearance, so that no field is left empty while a date remains.
C24_DatesFillEmptyFields ==
    pc = "returned" =>
        /\ fn_result.dob = FilledFrom(fn_call, "DOB", Unlabelled(fn_call))
        /\ fn_result.issue_date =
              FilledFrom(fn_call, "Issue Date",
                         LeftAfter(fn_call, "DOB", Unlabelled(fn_call)))
        /\ fn_result.valid_till =
              FilledFrom(fn_call, "Valid Till",
                         LeftAfter(fn_call, "Issue Date",
                                   LeftAfter(fn_call, "DOB", Unlabelled(fn_call))))
        /\ \A field \in {"dob", "issue_date", "valid_till"} :
              fn_result[field] = NoneV => fn_result.unique_dates = <<>>

\* what holds of dob: it is the date labelled as date of birth, or nothing
C24_DobOnlyFromLabel ==
    pc = "returned" =>
        /\ fn_result.dob = (IF LabelledDate(fn_call, "DOB") = <<>> THEN NoneV
                            ELSE DateV(LabelledDate(fn_call, "DOB")[1]))
        /\ \A field \in {"issue_date", "valid_till"} :
              fn_result[field] = NoneV => fn_result.unique_dates = <<>>
        /\ (LabelledDate(fn_call, "Issue Date") = <<>>
               /\ LabelledDate(fn_call, "Valid Till") = <<>>
               /\ fn_result.valid_till # NoneV)
              => fn_result.issue_date # fn_result.valid_till

(***************************************************************************)
(* Specification of call_heavy_api (ocr_routes.py:40-116) as scan_document *)
(* calls it (max_retries = 1) and as rescan_document calls it              *)
(* (max_retries = 0): each requests.post and each time.sleep followed by   *)
(* the recursive call is a step.                                           *)
(***************************************************************************)
MaxCalls == 2

\* max_retries of the caller
MaxRetriesOf(caller) == IF caller = "scan" THEN HEAVY_MAX_RETRIES ELSE 0

InitHeavy ==
    /\ pc = "serving"
    /\ req = [calls |-> 0, pc |-> "returned", caller |-> "none", heavy_url |-> TRUE,
              retry_count |-> 0, max_retries |-> 0, replies |-> <<>>, slept |-> 0,
              returned |-> NoResult]
    /\ db = NoResult
    /\ clock = 0
    /\ rerun_result = NoResult
    /\ fn_call = NoResult
    /\ fn_result = NoResult
    /\ IdleClassify
    /\ IdleHybrid
    /\ IdleConf
    /\ response_fields = NoFields

\* scan_document or rescan_document calls call_heavy_api
HeavyCalled ==
    /\ req.pc = "returned"
    /\ req.calls < MaxCalls
    /\ \E caller \in {"scan", "rescan"}, heavy_url \in BOOLEAN :
          req' = [calls |-> req.calls + 1, pc |-> "post", caller |-> caller,
                  heavy_url |-> heavy_url, retry_count |-> 0,
                  max_retries |-> MaxRetriesOf(caller), replies |-> <<>>, slept |-> 0,
                  returned |-> NoResult]

\* if not HEAVY_API_URL: return None
HeavyNoUrl ==
    /\ req.pc = "post"
    /\ ~req.heavy_url
    /\ req' = [req EXCEPT !.pc = "returned", !.returned = NoResult]

\* requests.post(...) and what follows it: the return or the decision to retry
HeavyPost ==
    /\ req.pc = "post"
    /\ req.heavy_url
    /\ \E reply \in HeavyReplies :
          req' = [req EXCEPT
                     !.replies = Append(@, reply),
                     !.pc = IF Retried(reply) /\ req.retry_count < req.max_retries
                            THEN "sleep" ELSE "returned",
                     !.returned = IF reply.kind = "json" THEN reply ELSE NoResult]

\* time.sleep(2); return call_heavy_api(..., retry_count + 1, max_retries)
HeavyRetry ==
    /\ req.pc = "sleep"
    /\ req' = [req EXCEPT !.pc = "post", !.retry_count = @ + 1, !.slept = @ + 2]

NextHeavy ==
    /\ HeavyCalled \/ HeavyNoUrl \/ HeavyPost \/ HeavyRetry
    /\ UNCHANGED <<pc, db, clock, rerun_result, fn_call, fn_result, classifyVars,
                   hybridVars, confVars, response_fields>>

\* a step of a call that is under way
HeavyStep == NextHeavy /\ req.pc # "returned"

SpecHeavy == InitHeavy /\ [][NextHeavy]_vars

\* the thread that serves the request keeps running: a post ends (the
\* timeout bounds it) and a sleep ends
SpecHeavyLive == SpecHeavy /\ WF_vars(HeavyStep)

\* the attempts of the call so far are within max_retries + 1, every attempt
\* but the last ended with a timeout, a connection error or a 5xx answer,
\* and what is returned is the body of a 200 answer or None
HeavyWithinRetries ==
    /\ Len(req.replies) <= req.max_retries + 1
    /\ Len(req.replies) <= (IF req.caller = "scan" THEN 2 ELSE 1)
    /\ \A i \in 1..(Len(req.replies) - 1) :
          \/ req.replies[i].kind \in {"Timeout", "ConnectionError"}
          \/ req.replies[i].kind = "status" /\ req.replies[i].code >= 500
    /\ req.pc = "sleep" =>
          \/ req.replies[Len(req.replies)].kind \in {"Timeout", "ConnectionError"}
          \/ /\ req.replies[Len(req.replies)].kind = "status"
             /\ req.replies[Len(req.replies)].code >= 500
    /\ req.returned # NoResult =>
          /\ req.pc = "returned"
          /\ req.returned.kind = "json"
          /\ req.returned = req.replies[Len(req.replies)]

\* C25: call_heavy_api always returns, after at most max_retries + 1 posts
\* (2 for scan, 1 for rescan); it posts again only after a timeout, a
\* connection error or a 5xx answer, and returns the body of a 200 answer
\* or None.
C25_HeavyTerminates ==
    /\ []HeavyWithinRetries
    /\ (req.pc # "returned") ~> (req.pc = "returned")

\* a scan call that returned the body of the second post, after a first
\* post that timed out
C25_Witness ==
    /\ req.pc = "returned"
    /\ req.caller = "scan"
    /\ Len(req.replies) = 2
    /\ req.replies[1].kind = "Timeout"
    /\ req.returned # NoResult

(***************************************************************************)
(* Specification of two calls of classify_document_type_v2                 *)
(* (extractor.py:118-206), one text after the other; the winning score and *)
(* the confidence of each call are kept.                                   *)
(***************************************************************************)
\* best_score and confidence of a result; no best_score when the text is
\* blank (the scores are not computed)
Winning(r) ==
    [best_score |-> IF r.scores = <<>> THEN <<>> ELSE <<r.scores[BestIndex(r.scores)]>>,
     confidence |-> r.confidence]

InitMonotone ==
    /\ pc = "first"
    /\ fn_call = NoResult
    /\ fn_result = NoResult
    /\ clock = 0
    /\ rerun_result = NoResult
    /\ db = NoResult
    /\ req = NoResult
    /\ IdleClassify
    /\ IdleHybrid
    /\ IdleConf
    /\ response_fields = NoFields

ClassifyFirst ==
    /\ pc = "first"
    /\ \E t \in Texts :
          \E r \in {classify_document_type_v2(t)} :
             fn_result' = [first |-> Winning(r), second |-> NoResult]
    /\ pc' = "second"
    /\ UNCHANGED <<fn_call, clock, rerun_result, db, req, classifyVars, hybridVars,
                   confVars, response_fields>>

ClassifySecond ==
    /\ pc = "second"
    /\ \E t \in Texts :
          \E r \in {classify_document_type_v2(t)} :
             fn_result' = [fn_result EXCEPT !.second = Winning(r)]
    /\ pc' = "returned"
    /\ UNCHANGED <<fn_call, clock, rerun_result, db, req, classifyVars, hybridVars,
                   confVars, response_fields>>

NextMonotone == ClassifyFirst \/ ClassifySecond

SpecMonotone == InitMonotone /\ [][NextMonotone]_vars

\* C26: of two classified texts, the one with the higher winning score has
\* at least the confidence of the other.
C26_ConfidenceMonotone ==
    (/\ pc = "returned"
     /\ fn_result.first.best_score # <<>>
     /\ fn_result.second.best_score # <<>>
     /\ fn_result.first.best_score[1] <= fn_result.second.best_score[1])
    => fn_result.first.confidence <= fn_result.second.confidence

\* what the code keeps: the confidence is within 0..95, equals the winning
\* score below 50 and from 70 to 99, and never exceeds the winning score
C26_ConfidenceWithinScore ==
    (pc = "returned" /\ fn_result.second.best_score # <<>>) =>
        /\ fn_result.second.confidence \in 0..95
        /\ fn_result.second.confidence <= fn_result.second.best_score[1]
        /\ (\/ fn_result.second.best_score[1] < 50
            \/ fn_result.second.best_score[1] \in 70..95)
              => fn_result.second.confidence = fn_result.second.best_score[1]

(***************************************************************************)
(* Specification of the stored files: scan_document stores the upload      *)
(* (ocr_routes.py:285-294), rescan_document reads it (416-431),            *)
(* submit_document deletes it on cleanup (931-940) and the scheduler of    *)
(* file_storage.py calls cleanup_old_files once a day (126-171).  The      *)
(* clock counts days.                                                      *)
(***************************************************************************)
MaxSteps == 3
FILE_RETENTION_DAYS == 30

\* the scan ids save_scan has not handed out yet
FreeScanIds(d) == ScanIds \ DOMAIN d.scans

\* scan_document from save_scan on: the record, then the file and the
\* storage_metadata that save_file returns (stored is False when it fails)
store_scan(d, scan_id, user_id, saved, today) ==
    [d EXCEPT !.scans = (scan_id :> [user_id |-> user_id, stored |-> saved,
                                     status |-> "scanned", rescan_count |-> 0]) @@ @,
              !.files = IF saved THEN @ \cup {scan_id} ELSE @,
              !.upload_date = IF saved THEN (scan_id :> today) @@ @ ELSE @]

\* FileStorageService.cleanup_old_files: the files uploaded before the
\* cutoff are deleted; no scan record is touched
cleanup_old_files(d, today) ==
    [d EXCEPT !.files = {f \in @ : ~(d.upload_date[f] < today - FILE_RETENTION_DAYS)}]

InitStorage ==
    /\ pc = "serving"
    /\ db = [scans |-> <<>>, files |-> {}, upload_date |-> <<>>, rescans |-> {},
             edits |-> {}, submissions |-> {}, made |-> 0]
    /\ req = [served |-> 0, last |-> NoResult]
    /\ clock = 0
    /\ rerun_result = NoResult
    /\ fn_call = NoResult
    /\ fn_result = NoResult
    /\ IdleClassify
    /\ IdleHybrid
    /\ IdleConf
    /\ response_fields = NoFields

\* POST /scan that reaches save_scan
ScanStored ==
    /\ req.served < MaxSteps
    /\ FreeScanIds(db) # {}
    /\ \E scan_id \in FreeScanIds(db), user_id \in UserIds, saved \in BOOLEAN :
          \E r \in {[endpoint |-> "scan", user_id |-> user_id, scan_id |-> scan_id]} :
             Served(r, Reply(200, store_scan(db, scan_id, user_id, saved, clock)))
    /\ UNCHANGED clock

\* POST /rescan/<scan_id> of a scan that exists
RescanStored ==
    /\ req.served < MaxSteps
    /\ \E scan_id \in DOMAIN db.scans, user_id \in UserIds,
          upload \in {"none", "valid"}, auto_submit \in BOOLEAN :
          \E r \in {[endpoint |-> "rescan", scan_id |-> scan_id, user_id |-> user_id,
                     upload |-> upload, ocr_ok |-> TRUE, auto_submit |-> auto_submit]} :
             Served(r, rescan_document(db, r))
    /\ UNCHANGED clock

\* POST /submit/<scan_id> of a scan that exists
SubmitStored ==
    /\ req.served < MaxSteps
    /\ \E scan_id \in DOMAIN db.scans, user_id \in UserIds, cleanup \in BOOLEAN :
          \E r \in {[endpoint |-> "submit", scan_id |-> scan_id, user_id |-> user_id,
                     edit_id |-> <<>>, title |-> NoResult, cleanup |-> cleanup]} :
             Served(r, submit_document(db, r))
    /\ UNCHANGED clock

\* the scheduler thread: a day (or more than the retention) has passed and
\* cleanup_old_files runs
CleanupOldFiles ==
    /\ req.served < MaxSteps
    /\ \E days \in {1, FILE_RETENTION_DAYS + 1} :
          /\ clock' = clock + days
          /\ \E r \in {[endpoint |-> "cleanup_old_files", days |-> days]} :
                Served(r, Reply(0, cleanup_old_files(db, clock + days)))

NextStorage ==
    /\ ScanStored \/ RescanStored \/ SubmitStored \/ CleanupOldFiles
    /\ UNCHANGED <<pc, rerun_result, fn_call, fn_result, classifyVars, hybridVars,
                   confVars, response_fields>>

SpecStorage == InitStorage /\ [][NextStorage]_vars

\* the last request was a rescan, without an upload, of a scan whose record
\* says the file is stored
RescanOfStored ==
    /\ req.last # NoResult
    /\ req.last.request.endpoint = "rescan"
    /\ req.last.request.upload = "none"
    /\ req.last.before.scans[req.last.request.scan_id].stored

\* C29: after any sequence of scans, rescans, submits with cleanup and
\* scheduled cleanups, the file of every scan whose storage_metadata.stored
\* is true is in the storage, and a rescan of such a scan without an upload
\* is not answered 404.
C29_StoredFileRetrievable ==
    /\ \A s \in DOMAIN db.scans : db.scans[s].stored => s \in db.files
    /\ RescanOfStored => req.last.status # 404

\* what the code keeps: a file in the storage belongs to a scan whose record
\* says it is stored, and the rescan of a stored scan is answered 404 exactly
\* when the file is gone
C29_FilesOfStoredScans ==
    /\ \A f \in db.files : f \in DOMAIN db.scans /\ db.scans[f].stored
    /\ (RescanOfStored /\ check_document_ownership(
                              req.last.before.scans[req.last.request.scan_id],
                              req.last.request.user_id)) =>
          (req.last.status = 404 <=> req.last.request.scan_id \notin req.last.before.files)

(***************************************************************************)
(* Claims about the pipeline (checked under Spec)                          *)
(***************************************************************************)
\* the document was classified as one of the five types
Typed ==
    /\ pc \in {"extracted", "enhanced", "responded"}
    /\ "error" \notin DOMAIN extraction_result
    /\ extraction_result.document_type \in DOMAIN DOCUMENT_FIELD_SCHEMA
SchemaKeys == ExpectedFields(extraction_result.document_type)

\* C7: for each of the five document types the extractor's field map holds
\* every key of the type's schema (null, or the found string), and the
\* annotated fields and the normalized fields of the response hold them too.
C7_SchemaKeysKept ==
    Typed =>
        /\ SchemaKeys \subseteq DOMAIN extraction_result.fields
        /\ \A n \in SchemaKeys :
              IsNone(extraction_result.fields[n]) \/ extraction_result.fields[n].kind = "str"
        /\ pc \in {"enhanced", "responded"} =>
              /\ SchemaKeys \subseteq DOMAIN enhanced_result.fields
              /\ \A n \in SchemaKeys :
                    enhanced_result.fields[n].value = extraction_result.fields[n]
        /\ pc = "responded" =>
              /\ SchemaKeys \subseteq DOMAIN response_fields
              /\ \A n \in SchemaKeys :
                    response_fields[n].value = extraction_result.fields[n]

\* a response for a typed document none of whose fields was found
C7_Witness ==
    /\ Typed
    /\ pc = "responded"
    /\ SchemaKeys # {}
    /\ \A n \in SchemaKeys : IsNone(response_fields[n].value)

\* C8: in the response for a typed document every schema field whose value is
\* null is the placeholder {value: null, confidence: 0}.
C8_NullPlaceholder ==
    (Typed /\ pc = "responded") =>
        \A n \in SchemaKeys :
            IsNone(response_fields[n].value) =>
                /\ response_fields[n].confidence = 0
                /\ DOMAIN response_fields[n] = {"value", "confidence"}
====
